---- MODULE Spec2Model ----
(***************************************************************************)
(* A model of the cassette loader (src/loaders/cpp/src/cassette_loader.cpp) *)
(* EventTracker, the message filter process_messages, and the request      *)
(* lifecycle of Cassette::send, Cassette::info and Cassette::describe run   *)
(* by several host threads against one guest.                              *)
(*                                                                         *)
(* A byte string is a sequence of chunks.  A chunk is either the newline   *)
(* NL or a run of bytes without a newline, written as its text.  The empty *)
(* string is << >>.  Splitting on newlines, joining with newlines and the  *)
(* byte length are computed on that representation.                        *)
(***************************************************************************)
EXTENDS Integers, Sequences, FiniteSets, TLC

(***************************************************************************)
(* JSON values, as nlohmann::json holds them after json::parse.            *)
(***************************************************************************)
JStr(s) == [type |-> "string", str |-> s]
JNum(n) == [type |-> "number", num |-> n]
JArr(items) == [type |-> "array", items |-> items]
JObj(fields) == [type |-> "object", fields |-> fields]
JErr == [type |-> "error"]

NL == "\n"

\* Messages a caller hands to send.
ReqA == "[\"REQ\", \"example-sub\", {\"limit\": 5}]"
ReqB == "[\"REQ\", \"sub-b\", {\"limit\": 5}]"
CloseA == "[\"CLOSE\", \"example-sub\"]"
ReqBare == "[\"REQ\"]"
Garbage == "not json"

\* Lines a guest writes into its reply.
EvA == "[\"EVENT\",\"s1\",{\"id\":\"a\"}]"
EvB == "[\"EVENT\",\"s1\",{\"id\":\"b\"}]"
EvNoId == "[\"EVENT\",\"s1\",{\"kind\":1}]"
EvNumId == "[\"EVENT\",\"s1\",{\"id\":7}]"
EvStr3 == "[\"EVENT\",\"s1\",\"x\"]"
EvShort == "[\"EVENT\",\"s1\"]"
Notice == "[\"NOTICE\",\"ok\"]"
Eose == "[\"EOSE\",\"s1\"]"
Bogus == "[\"BOGUS\",\"x\"]"
Foo == "FOO"
ObjText == "{\"a\":1}"
NumTag == "[1,2]"
OneElem == "[\"EOSE\"]"
EmptyArr == "[]"

\* Messages the loader makes up itself.
NoticeFailed == "[\"NOTICE\", \"send() failed\"]"
NoticeNull == "[\"NOTICE\", \"send() returned null pointer\"]"

\* Strings a guest's info export returns.
InfoStub == "{\"supported_nips\": []}"
InfoFull == "{\"name\":\"Demo\",\"supported_nips\":[1,42]}"
InfoName == "{\"name\":\"Demo\"}"
InfoEmptyName == "{\"name\":\"\"}"
InfoBadNips == "{\"supported_nips\":[\"x\"]}"

\* json::parse of the texts above; any other text is a parse error.
JsonParse(text) ==
    CASE text = ReqA -> JArr(<<JStr("REQ"), JStr("example-sub"), JObj("limit" :> JNum(5))>>)
      [] text = ReqB -> JArr(<<JStr("REQ"), JStr("sub-b"), JObj("limit" :> JNum(5))>>)
      [] text = CloseA -> JArr(<<JStr("CLOSE"), JStr("example-sub")>>)
      [] text = ReqBare -> JArr(<<JStr("REQ")>>)
      [] text = EvA -> JArr(<<JStr("EVENT"), JStr("s1"), JObj("id" :> JStr("a"))>>)
      [] text = EvB -> JArr(<<JStr("EVENT"), JStr("s1"), JObj("id" :> JStr("b"))>>)
      [] text = EvNoId -> JArr(<<JStr("EVENT"), JStr("s1"), JObj("kind" :> JNum(1))>>)
      [] text = EvNumId -> JArr(<<JStr("EVENT"), JStr("s1"), JObj("id" :> JNum(7))>>)
      [] text = EvStr3 -> JArr(<<JStr("EVENT"), JStr("s1"), JStr("x")>>)
      [] text = EvShort -> JArr(<<JStr("EVENT"), JStr("s1")>>)
      [] text = Notice -> JArr(<<JStr("NOTICE"), JStr("ok")>>)
      [] text = Eose -> JArr(<<JStr("EOSE"), JStr("s1")>>)
      [] text = Bogus -> JArr(<<JStr("BOGUS"), JStr("x")>>)
      [] text = ObjText -> JObj("a" :> JNum(1))
      [] text = NumTag -> JArr(<<JNum(1), JNum(2)>>)
      [] text = OneElem -> JArr(<<JStr("EOSE")>>)
      [] text = EmptyArr -> JArr(<< >>)
      [] text = NoticeFailed -> JArr(<<JStr("NOTICE"), JStr("send() failed")>>)
      [] text = NoticeNull -> JArr(<<JStr("NOTICE"), JStr("send() returned null pointer")>>)
      [] text = InfoStub -> JObj("supported_nips" :> JArr(<< >>))
      [] text = InfoFull -> JObj(("name" :> JStr("Demo")) @@ ("supported_nips" :> JArr(<<JNum(1), JNum(42)>>)))
      [] text = InfoName -> JObj("name" :> JStr("Demo"))
      [] text = InfoEmptyName -> JObj("name" :> JStr(""))
      [] text = InfoBadNips -> JObj("supported_nips" :> JArr(<<JStr("x")>>))
      [] OTHER -> JErr

is_array(j) == j.type = "array"
is_object(j) == j.type = "object"
is_string(j) == j.type = "string"
size(j) == IF is_array(j) THEN Len(j.items)
           ELSE IF is_object(j) THEN Cardinality(DOMAIN j.fields)
           ELSE IF j.type = "null" THEN 0 ELSE 1
contains(j, key) == is_object(j) /\ key \in DOMAIN j.fields
\* parsed[0] == "X" on a non-const array: an empty array is first filled with
\* a null, which equals no string.
first_is(j, s) == is_array(j) /\ Len(j.items) >= 1 /\ j.items[1] = JStr(s)

(***************************************************************************)
(* Byte strings as chunk sequences.                                        *)
(***************************************************************************)
RECURSIVE length(_)
length(s) == IF s = << >> THEN 0 ELSE Len(Head(s)) + length(Tail(s))

has_newline(s) == \E i \in 1..Len(s) : s[i] = NL

\* std::getline over the string: the runs between newlines; a final run is a
\* line only when it is not empty.  cur is the line being read.
RECURSIVE getlines(_, _)
getlines(s, cur) ==
    IF s = << >> THEN (IF cur = "" THEN << >> ELSE <<cur>>)
    ELSE IF Head(s) = NL THEN <<cur>> \o getlines(Tail(s), "")
    ELSE getlines(Tail(s), cur \o Head(s))

\* The whole string as one text (a string without a newline).
RECURSIVE text_of(_)
text_of(s) == IF s = << >> THEN "" ELSE Head(s) \o text_of(Tail(s))

\* One text as a string.
str(text) == IF text = "" THEN << >> ELSE <<text>>

\* The caller's view of a returned string: the messages in it.
messages_of(s) == SelectSeq(getlines(s, ""), LAMBDA m : m # "")

(***************************************************************************)
(* EventTracker.  event_ids is the set; the operators return the new set.  *)
(***************************************************************************)
reset == {}

\* A tracker that tests the id and forgets to insert it.
add_and_check_forgets(ids, event_id) ==
    [inserted |-> event_id \notin ids, ids |-> ids]

add_and_check(ids, event_id) ==
    [inserted |-> event_id \notin ids, ids |-> ids \cup {event_id}]

(***************************************************************************)
(* Cassette::is_duplicate_event and Cassette::process_messages, as         *)
(* functions of the reply and of the tracker's set.                        *)
(***************************************************************************)
\* A test that takes an EVENT without a string id for one with the id "".
is_duplicate_event_keyless(parsed, ids) ==
    IF first_is(parsed, "EVENT") /\ size(parsed) >= 3
    THEN LET event == parsed.items[3]
             event_id == IF is_object(event) /\ contains(event, "id")
                            /\ is_string(event.fields["id"])
                         THEN event.fields["id"].str ELSE ""
             r == add_and_check(ids, event_id) IN
         [dup |-> ~r.inserted, ids |-> r.ids]
    ELSE [dup |-> FALSE, ids |-> ids]

is_duplicate_event(parsed, ids) ==
    IF first_is(parsed, "EVENT") /\ size(parsed) >= 3 /\ is_object(parsed.items[3])
    THEN LET event == parsed.items[3] IN
         IF contains(event, "id") /\ is_string(event.fields["id"])
         THEN LET r == add_and_check(ids, event.fields["id"].str) IN
              [dup |-> ~r.inserted, ids |-> r.ids]
         ELSE [dup |-> FALSE, ids |-> ids]
    ELSE [dup |-> FALSE, ids |-> ids]

\* A filter that lets every tag through.
KnownTags_any == {"NOTICE", "EVENT", "EOSE", "BOGUS", "REQ", "CLOSE"}

KnownTags == {"NOTICE", "EVENT", "EOSE"}

\* The body of the loop over the lines of a reply with newlines: whether the
\* line is pushed to filtered_messages, and the tracker's set afterwards.
filter_line(msg, ids) ==
    LET parsed == JsonParse(msg) IN
    IF parsed = JErr THEN [keep |-> FALSE, ids |-> ids]
    ELSE IF ~is_array(parsed) \/ size(parsed) < 2 THEN [keep |-> FALSE, ids |-> ids]
    ELSE IF ~is_string(parsed.items[1]) THEN [keep |-> FALSE, ids |-> ids]
    ELSE LET msg_type == parsed.items[1].str IN
         IF msg_type \notin KnownTags THEN [keep |-> FALSE, ids |-> ids]
         ELSE IF msg_type = "EVENT" /\ size(parsed) >= 3
              THEN LET d == is_duplicate_event(parsed, ids) IN
                   [keep |-> ~d.dup, ids |-> d.ids]
              ELSE [keep |-> TRUE, ids |-> ids]

\* A loop that puts each surviving line in front of the earlier ones.
RECURSIVE filter_lines_prepending(_, _, _)
filter_lines_prepending(lines, ids, filtered) ==
    IF lines = << >> THEN [filtered |-> filtered, ids |-> ids]
    ELSE IF Head(lines) = "" THEN filter_lines_prepending(Tail(lines), ids, filtered)
    ELSE LET r == filter_line(Head(lines), ids) IN
         filter_lines_prepending(Tail(lines), r.ids,
                      IF r.keep THEN <<Head(lines)>> \o filtered ELSE filtered)

RECURSIVE filter_lines(_, _, _)
filter_lines(lines, ids, filtered) ==
    IF lines = << >> THEN [filtered |-> filtered, ids |-> ids]
    ELSE IF Head(lines) = "" THEN filter_lines(Tail(lines), ids, filtered)
    ELSE LET r == filter_line(Head(lines), ids) IN
         filter_lines(Tail(lines), r.ids,
                      IF r.keep THEN Append(filtered, Head(lines)) ELSE filtered)

\* A single-reply branch that treats the reply as it treats a line.
filter_single_as_line(result, ids) ==
    LET r == filter_line(text_of(result), ids) IN
    [filtered |-> IF r.keep THEN <<text_of(result)>> ELSE << >>, ids |-> r.ids]

\* A single-reply branch that hands the reply on without asking the tracker.
filter_single_untracked(result, ids) ==
    [filtered |-> <<text_of(result)>>, ids |-> ids]

\* The branch for a reply without a newline.
filter_single(result, ids) ==
    LET text == text_of(result)
        parsed == JsonParse(text) IN
    IF parsed = JErr THEN [filtered |-> <<text>>, ids |-> ids]
    ELSE IF is_array(parsed) /\ first_is(parsed, "EVENT") /\ size(parsed) >= 3
         THEN LET d == is_duplicate_event(parsed, ids) IN
              [filtered |-> IF d.dup THEN << >> ELSE <<text>>, ids |-> d.ids]
         ELSE [filtered |-> <<text>>, ids |-> ids]

process_messages(result, ids) ==
    IF has_newline(result)
    THEN filter_lines(getlines(result, ""), ids, << >>)
    ELSE filter_single(result, ids)

\* A send that puts the messages one after the other with nothing between.
RECURSIVE join_concat(_)
join_concat(filtered) ==
    IF filtered = << >> THEN << >>
    ELSE str(Head(filtered) \o text_of(join_concat(Tail(filtered))))

\* The end of send: the filtered messages as one string.
RECURSIVE join(_)
join(filtered) ==
    IF filtered = << >> THEN << >>
    ELSE IF Len(filtered) = 1 THEN str(filtered[1])
    ELSE <<Head(filtered), NL>> \o join(Tail(filtered))

\* A send that starts afresh on every tagged message.
resets_tracker_on_any_tag(message) ==
    LET msg_data == JsonParse(message) IN
    /\ msg_data # JErr
    /\ is_array(msg_data) /\ size(msg_data) >= 2
    /\ is_string(msg_data.items[1])

\* A send that takes CLOSE, not REQ, for the start of a request.
resets_tracker_on_close(message) ==
    LET msg_data == JsonParse(message) IN
    /\ msg_data # JErr
    /\ is_array(msg_data) /\ size(msg_data) >= 2
    /\ is_string(msg_data.items[1])
    /\ msg_data.items[1].str = "CLOSE"

\* The start of send: whether the message resets the tracker.
resets_tracker(message) ==
    LET msg_data == JsonParse(message) IN
    /\ msg_data # JErr
    /\ is_array(msg_data) /\ size(msg_data) >= 2
    /\ is_string(msg_data.items[1])
    /\ msg_data.items[1].str = "REQ"

(***************************************************************************)
(* Cassette::describe's synthesis of a description from the info string.   *)
(***************************************************************************)
Digits == <<"0", "1", "2", "3", "4", "5", "6", "7", "8", "9">>

RECURSIVE to_string(_)
to_string(n) == IF n < 10 THEN Digits[n + 1]
                ELSE to_string(n \div 10) \o Digits[(n % 10) + 1]

\* The loop over supported_nips; "throw" stands for the type_error of get<int>.
RECURSIVE nips_text(_, _)
nips_text(nips, i) ==
    IF i > Len(nips) THEN ""
    ELSE IF nips[i].type # "number" THEN "throw"
    ELSE LET rest == nips_text(nips, i + 1) IN
         IF rest = "throw" THEN "throw"
         ELSE (IF i > 1 THEN ", " ELSE "") \o to_string(nips[i].num) \o rest

synthesize(info_str) ==
    LET info_json == JsonParse(text_of(info_str)) IN
    IF info_json = JErr THEN "Cassette module"
    ELSE LET description ==
                 IF contains(info_json, "name") /\ is_string(info_json.fields["name"])
                 THEN info_json.fields["name"].str ELSE "Cassette"
         IN IF contains(info_json, "supported_nips")
               /\ is_array(info_json.fields["supported_nips"])
               /\ size(info_json.fields["supported_nips"]) > 0
            THEN LET list == nips_text(info_json.fields["supported_nips"].items, 1) IN
                 IF list = "throw" THEN "Cassette module"
                 ELSE description \o " (supports NIPs: " \o list \o ")"
            ELSE description

(***************************************************************************)
(* The benchmark's percentile (src/benchmarks/cpp/benchmark.cpp).  Times   *)
(* are numbers; a probability is given in hundredths.                      *)
(***************************************************************************)
\* A percentile that takes the values in the order they came.
sort_skipped(values) == values

\* The place std::sort gives the element at position i: after the smaller
\* elements and after the equal ones that came before it.
rank(values, i) ==
    Cardinality({j \in 1..Len(values) :
                    values[j] < values[i] \/ (values[j] = values[i] /\ j <= i)})

\* std::sort(values.begin(), values.end()): the values in ascending order.
sort(values) ==
    [k \in 1..Len(values) |-> values[CHOOSE i \in 1..Len(values) : rank(values, i) = k]]

min(a, b) == IF a < b THEN a ELSE b

\* static_cast<int>(values.size() * p) for p = hundredths / 100: the product
\* of the size and the double nearest to p, cut to an integer.
index_of(n, hundredths) == (n * hundredths) \div 100

\* percentile(values, p) on its own copy of the values.
percentile(values, hundredths) ==
    IF values = << >> THEN 0
    ELSE LET sorted == sort(values)
             index == index_of(Len(values), hundredths)
         IN  sorted[min(index, Len(values) - 1) + 1]

\* A SendResult: the std::string alternative or the vector alternative.
Single(m) == [shape |-> "string", messages |-> <<m>>]
List(ms) == [shape |-> "vector", messages |-> ms]

\* Lines 155-158: the message parses and parsed[0] == "EVENT" holds; a parse
\* error and the type_error of parsed[0] on a value that is no array are
\* caught.
counts_as_event(msg) ==
    LET parsed == JsonParse(msg) IN
    parsed # JErr /\ is_array(parsed) /\ first_is(parsed, "EVENT")

\* Lines 151-160: the events counted in one response.
count_events(response) ==
    IF response.shape = "vector"
    THEN Len(SelectSeq(response.messages, counts_as_event))
    ELSE 0

(***************************************************************************)
(* MemoryManager.  Guest memory is a sequence of bytes; the byte at offset *)
(* k is data[k + 1].  A string here is the sequence of its bytes.          *)
(***************************************************************************)
NoRet == [kind |-> "none", val |-> << >>]
Value(s) == [kind |-> "value", val |-> s]
Error(what) == [kind |-> "error", val |-> <<what>>]

\* The bytes of "MSGB".
Magic == <<77, 83, 71, 66>>

byte_at(data, k) == data[k + 1]

\* The count bytes of data from offset k on.
bytes_from(data, k, count) == SubSeq(data, k + 1, k + count)

\* A reader that takes the length for big-endian.
be32(data, k) ==
    16777216 * data[k + 1] + 65536 * data[k + 2] + 256 * data[k + 3] + data[k + 4]

\* Line 70: the four bytes at offset k as a little-endian uint32_t.
le32(data, k) ==
    byte_at(data, k) + 256 * byte_at(data, k + 1)
    + 65536 * byte_at(data, k + 2) + 16777216 * byte_at(data, k + 3)

\* Lines 79-82: the offset of the first zero byte at or after end, or the
\* size of memory.
RECURSIVE scan(_, _)
scan(data, end) ==
    IF end < Len(data) /\ byte_at(data, end) # 0 THEN scan(data, end + 1) ELSE end

\* Lines 65-72: the magic is there and the declared length fits in memory.
msgb_fits(data, ptr_size) ==
    /\ ptr_size + 8 <= Len(data)
    /\ bytes_from(data, ptr_size, 4) = Magic
    /\ ptr_size + 8 + le32(data, ptr_size + 4) <= Len(data)

\* MemoryManager::read_string for a pointer that is not negative.
read_string(data, ptr) ==
    IF ptr = 0 THEN Error("null pointer")
    ELSE LET ptr_size == ptr IN
         IF msgb_fits(data, ptr_size)
         THEN Value(bytes_from(data, ptr_size + 8, le32(data, ptr_size + 4)))
         ELSE Value(bytes_from(data, ptr_size, scan(data, ptr_size) - ptr_size))

\* A write_string that ends the copy with a terminator.
memcpy_terminated(data, ptr, s) ==
    [i \in 1..Len(data) |->
        IF i - 1 >= ptr /\ i - 1 < ptr + Len(s) THEN s[i - ptr]
        ELSE IF i - 1 = ptr + Len(s) THEN 0 ELSE data[i]]

\* Line 51: the bytes of s copied to the offsets from ptr on.
memcpy(data, ptr, s) ==
    [i \in 1..Len(data) |->
        IF i - 1 >= ptr /\ i - 1 < ptr + Len(s) THEN s[i - ptr] ELSE data[i]]

\* A write_string that takes only a failed call for a failed allocation.
alloc_failed_call_only(results) == results = << >>

\* Lines 41 and 46: alloc_string gave no value, or the pointer 0.
alloc_failed(results) == results = << >> \/ results[1] = 0

\* Lines 41-48: what write_string throws when alloc_string gives results, a
\* failed call or the pointer 0.
alloc_error(results) ==
    IF results = << >> THEN Error("allocation failed")
    ELSE Error("allocation returned null pointer")

\* MemoryManager::write_string when alloc_string gives results: what it throws
\* or the pointer it returns, and guest memory afterwards.
write_string(data, s, results) ==
    IF alloc_failed(results)
    THEN [thrown |-> alloc_error(results), ptr |-> 0, data |-> data]
    ELSE [thrown |-> NoRet, ptr |-> results[1], data |-> memcpy(data, results[1], s)]

(***************************************************************************)
(* size_t, for pointers of any sign.  A size_t is 64 bits wide; it is held *)
(* as four 16-bit limbs, highest first, and the sums wrap at 2^64 as they  *)
(* do in the machine.  An int32_t is a number in -2^31 .. 2^31 - 1.        *)
(***************************************************************************)
\* static_cast<size_t>(n) for an int32_t n: a negative n is sign-extended,
\* that is 2^64 + n.
to_size_t(n) ==
    IF n >= 0 THEN <<0, 0, n \div 65536, n % 65536>>
    ELSE LET m == (n + 2147483647) + 1 IN
         <<65535, 65535, 32768 + (m \div 65536), m % 65536>>

\* x + c in size_t, for 0 <= c < 2^31.
size_add(x, c) ==
    LET t4 == x[4] + (c % 65536)
        t3 == x[3] + (c \div 65536) + (t4 \div 65536)
        t2 == x[2] + (t3 \div 65536)
        t1 == x[1] + (t2 \div 65536)
    IN  <<t1 % 65536, t2 % 65536, t3 % 65536, t4 % 65536>>

\* x <= n and x < n in size_t, for 0 <= n < 2^31.
size_le(x, n) ==
    x[1] = 0 /\ x[2] = 0 /\ x[3] < 32768 /\ x[3] * 65536 + x[4] <= n
size_lt(x, n) ==
    x[1] = 0 /\ x[2] = 0 /\ x[3] < 32768 /\ x[3] * 65536 + x[4] < n

\* Where data.data() + x points, counted in bytes from data.data(): the
\* address wraps with x, so an x in the upper half lies before the start.
offset_of(x) ==
    IF x[1] >= 32768
    THEN (((x[3] - 32768) * 65536 + x[4]) - 2147483647) - 1
    ELSE x[3] * 65536 + x[4]

\* The offsets MemoryManager::read_string reads for the int32_t ptr: the
\* signature (line 66) once line 65 lets it through, the length (line 70),
\* the payload (line 73), or the bytes of the scan (lines 79-84).  When the
\* signature lies outside memory what follows is undefined and only the
\* signature's offsets are listed.
read_string_reads(data, ptr) ==
    IF ptr = 0 THEN {}
    ELSE LET ptr_size == to_size_t(ptr)
             at == offset_of(ptr_size)
             scanned == IF size_lt(ptr_size, Len(data))
                        THEN at..min(scan(data, at), Len(data) - 1)
                        ELSE {}
         IN  IF size_le(size_add(ptr_size, 8), Len(data))
             THEN IF ~((at..(at + 3)) \subseteq (0..(Len(data) - 1)))
                  THEN at..(at + 3)
                  ELSE IF bytes_from(data, at, 4) # Magic
                  THEN (at..(at + 3)) \cup scanned
                  ELSE IF size_le(size_add(size_add(ptr_size, 8), le32(data, at + 4)),
                                  Len(data))
                  THEN at..(at + 8 + le32(data, at + 4) - 1)
                  ELSE (at..(at + 7)) \cup scanned
             ELSE scanned

\* Line 51: the offsets std::memcpy(data.data() + ptr, ...) writes; the copy
\* is not checked against data.size().
write_string_writes(data, ptr, s) == ptr..(ptr + Len(s) - 1)

(***************************************************************************)
(* The inputs: the host threads, what callers send, what the guest answers.*)
(***************************************************************************)
Threads == {"t1", "t2"}
NoOwner == "nobody"

Messages == {ReqA, ReqB, CloseA, ReqBare, Garbage}

\* Guest pointers are 1..MaxPtr; 0 is the null pointer.
MaxPtr == 2
Pointers == 0..MaxPtr

\* What a call of a guest function returning i32 yields: an empty result
\* vector when the call fails, else one value.
CallResults == {<< >>} \cup {<<p>> : p \in Pointers}

\* Replies read at the result pointer of send.
Replies ==
    { << >>,
      <<EvA>>, <<EvB, NL>>, <<Eose>>, <<Bogus>>, <<Foo>>, <<ObjText>>,
      <<EvShort>>, <<NumTag>>,
      <<EvA, NL, EvA, NL, Eose>>,
      <<EvA, NL, EvB, NL, Eose>>,
      <<Foo, NL, Notice, NL, Bogus>>,
      <<EvNoId, NL, NL, EvNoId>>,
      <<NumTag, NL, OneElem, NL, EvNumId, NL, EvStr3>>,
      <<EvShort, NL, EmptyArr, NL, ObjText>> }

\* What get_allocation_size answers.
AllocSizes == {<< >>, <<64>>}

\* Strings read at the result pointer of info and of describe.
InfoStrings == { << >>, <<InfoStub>>, <<InfoFull>>, <<InfoName>>, <<InfoEmptyName>>,
                 <<InfoBadNips>>, <<Garbage>>, <<NumTag>> }
DescStrings == { << >>, <<"Demo cassette">> }

\* The string event ids of the replies.
EventIds == {"a", "b"}

(***************************************************************************)
(* The state.  One Cassette: its optional exports (present or absent), its *)
(* mutex, its EventTracker.  Per thread: where its call stands and the     *)
(* locals of the call.  calllog[t] lists what the guest has seen of the    *)
(* thread's current call: the guest functions called and the host's        *)
(* accesses to guest memory, each with the source line it comes from.      *)
(* returned and a_before record what callers were handed: per event id the *)
(* number of EVENT messages returned since the last REQ, and whether an    *)
(* EVENT with id "a" was returned between the REQ before that and it.      *)
(***************************************************************************)
VARIABLES describe_func, info_func, dealloc_func, get_size_func,
          mutex, event_ids,
          pc, op, message, msg_ptr, results, result_str, nested, ret, calllog,
          returned, a_before

\* The MemoryManager taken alone: guest memory, the pointer and the string of
\* the operation under way, what the operation gave, and where the run stands.
VARIABLES memory, guest_ptr, wrote, got, mpc

exports == <<describe_func, info_func, dealloc_func, get_size_func>>
locals == <<op, message, msg_ptr, results, result_str, nested, ret, calllog>>
history == <<returned, a_before>>
cassette == <<exports, mutex, event_ids, pc, locals, history>>
manager == <<memory, guest_ptr, wrote, got, mpc>>

\* The constructor: what the instance exports under each name, the required
\* members resolved so far, where the constructor stands and what it threw.
VARIABLES instance, memory_manager, send_func, cpc, failure

ctor == <<instance, memory_manager, send_func, cpc, failure>>

\* The benchmark's percentile taken alone: the caller's vector, the
\* probability in hundredths, what percentile returned, and where it stands.
VARIABLES sample, values, prob, pvalue, ppc

pct == <<sample, values, prob, pvalue, ppc>>

\* benchmark_cassette taken alone: the number of iterations asked for, the
\* index of the filter and of the iteration under way, the two vectors of the
\* filter under way, the two maps of the result, and where the run stands.
\* returned_events and filter_returned record, beside event_counts and
\* filter_event_counts, how many EVENT messages each send returned.
VARIABLES iterations, idx, iter, times, event_counts, filter_timings,
          filter_event_counts, bpc, returned_events, filter_returned

bench == <<iterations, idx, iter, times, event_counts, filter_timings,
           filter_event_counts, bpc, returned_events, filter_returned>>

\* The benchmark's main taken alone: the arguments after the program name,
\* the iterations option as parsed so far, the index of the argument under
\* way, the cassette paths, the index of the path under way, what
\* benchmark_cassette returned for each path that got that far, whether the
\* report was saved, the exit status (-1 while main runs), and where main
\* stands.
VARIABLES argv, arg_i, cli_iterations, cassette_paths, path_idx, bench_results,
          saved, exit_code, cpos

cli == <<argv, arg_i, cli_iterations, cassette_paths, path_idx, bench_results,
         saved, exit_code, cpos>>
harness == <<pct, bench, cli>>

\* What the MemoryManager touched: the byte offsets, counted from the start
\* of guest memory, that read_string read and that write_string wrote.
VARIABLES read_at, written_at

access == <<read_at, written_at>>
aux == <<manager, ctor, harness, access>>

vars == <<cassette, aux>>

Entry(fn, args, r, line) == [fn |-> fn, args |-> args, ret |-> r, at |-> line]

\* A protocol REQ: the tag and a subscription id.
IsReq(m) == m \in {ReqA, ReqB}

\* The string event id a returned message carries, "" when it carries none.
event_id_of(m) ==
    LET j == JsonParse(m) IN
    IF j.type = "array" /\ Len(j.items) >= 3 /\ j.items[1] = JStr("EVENT")
       /\ j.items[3].type = "object" /\ "id" \in DOMAIN j.items[3].fields
       /\ j.items[3].fields["id"].type = "string"
    THEN j.items[3].fields["id"].str ELSE ""

count_id(s, i) == Len(SelectSeq(messages_of(s), LAMBDA m : event_id_of(m) = i))

\* The MemoryManager at rest, in the runs that are about the Cassette.
ManagerIdle ==
    /\ memory = << >> /\ guest_ptr = 0 /\ wrote = << >> /\ got = NoRet /\ mpc = "off"

Required == {"memory", "alloc_string", "send"}
Optional == {"describe", "info", "dealloc_string", "get_allocation_size"}

\* What an instance can export under a name: nothing, a function of the
\* documented signature, a function of another signature, or something that
\* is not a function (a memory).
Kinds == {"absent", "func", "func_other_sig", "memory"}
IsFunc(kind) == kind \in {"func", "func_other_sig"}

\* The instance of a Cassette whose constructor has returned with the given
\* optional functions.
Constructed ==
    /\ instance = [n \in Required \cup Optional |->
                      CASE n = "memory" -> "memory"
                        [] n \in {"alloc_string", "send"} -> "func"
                        [] n = "describe" -> IF describe_func THEN "func" ELSE "absent"
                        [] n = "info" -> IF info_func THEN "func" ELSE "absent"
                        [] n = "dealloc_string" -> IF dealloc_func THEN "func" ELSE "absent"
                        [] OTHER -> IF get_size_func THEN "func" ELSE "absent"]
    /\ memory_manager = TRUE /\ send_func = TRUE
    /\ cpc = "done" /\ failure = ""

\* benchmark_cassette not running.
BenchIdle ==
    /\ iterations = 0 /\ idx = 0 /\ iter = 0
    /\ times = << >> /\ event_counts = << >>
    /\ filter_timings = << >> /\ filter_event_counts = << >>
    /\ bpc = "off"
    /\ returned_events = << >> /\ filter_returned = << >>

\* The benchmark's main not running.
MainIdle ==
    /\ argv = << >> /\ arg_i = 0 /\ cli_iterations = 0
    /\ cassette_paths = << >> /\ path_idx = 0 /\ bench_results = << >>
    /\ saved = FALSE /\ exit_code = -1 /\ cpos = "off"

\* Guest memory not touched.
AccessIdle == read_at = {} /\ written_at = {}

\* The benchmark harness at rest.
HarnessIdle ==
    /\ sample = << >> /\ values = << >> /\ prob = 0 /\ pvalue = 0 /\ ppc = "off"
    /\ BenchIdle
    /\ MainIdle

\* A Cassette on which no call has been made yet.
Fresh ==
    /\ mutex = NoOwner
    /\ event_ids = {}
    /\ pc = [t \in Threads |-> "idle"]
    /\ op = [t \in Threads |-> "none"]
    /\ message = [t \in Threads |-> ""]
    /\ msg_ptr = [t \in Threads |-> 0]
    /\ results = [t \in Threads |-> << >>]
    /\ result_str = [t \in Threads |-> << >>]
    /\ nested = [t \in Threads |-> FALSE]
    /\ ret = [t \in Threads |-> NoRet]
    /\ calllog = [t \in Threads |-> << >>]
    /\ returned = [i \in EventIds |-> 0]
    /\ a_before = FALSE

Init ==
    /\ describe_func \in BOOLEAN /\ info_func \in BOOLEAN
    /\ dealloc_func \in BOOLEAN /\ get_size_func \in BOOLEAN
    /\ Fresh
    /\ ManagerIdle
    /\ Constructed
    /\ HarnessIdle
    /\ AccessIdle

\* A caller starts send, info() or describe().
Call(t) ==
    /\ pc[t] = "idle"
    /\ \E o \in {"send", "info", "describe"} : op' = [op EXCEPT ![t] = o]
    /\ pc' = [pc EXCEPT ![t] = "lock"]
    /\ UNCHANGED <<aux, exports, mutex, event_ids, message, msg_ptr, results, result_str,
                   nested, ret, calllog, history>>

\* A call that goes on without waiting for the mutex.
lock_unchecked(t) == mutex' = t

\* std::lock_guard<std::mutex> lock(mutex): waits until the mutex is free.
lock(t) == mutex = NoOwner /\ mutex' = t

\* ---- Cassette::send ----

\* Lines 275-294: take the mutex, parse the message, reset the tracker on REQ.
SendEnter(t) ==
    /\ pc[t] = "lock" /\ op[t] = "send"
    /\ lock(t)
    /\ \E m \in Messages :
         /\ message' = [message EXCEPT ![t] = m]
         /\ event_ids' = IF resets_tracker(m) THEN reset ELSE event_ids
         /\ IF IsReq(m)
            THEN /\ returned' = [i \in EventIds |-> 0]
                 /\ a_before' = (returned["a"] > 0)
            ELSE UNCHANGED history
    /\ pc' = [pc EXCEPT ![t] = "alloc"]
    /\ UNCHANGED <<aux, exports, op, msg_ptr, results, result_str, nested, ret, calllog>>

\* Line 297, MemoryManager::write_string: alloc_string(len), then the copy.
SendAlloc(t) ==
    /\ pc[t] = "alloc"
    /\ \E r \in CallResults :
         LET len == Len(message[t])
             alloc == Entry("alloc_string", <<len>>, r, 39) IN
         IF alloc_failed(r)
         THEN /\ ret' = [ret EXCEPT ![t] = alloc_error(r)]
              /\ calllog' = [calllog EXCEPT ![t] = Append(@, alloc)]
              /\ pc' = [pc EXCEPT ![t] = "ret"]
              /\ UNCHANGED msg_ptr
         ELSE /\ msg_ptr' = [msg_ptr EXCEPT ![t] = r[1]]
              /\ calllog' = [calllog EXCEPT ![t] =
                     @ \o <<alloc, Entry("memcpy", <<r[1], len>>, << >>, 51)>>]
              /\ pc' = [pc EXCEPT ![t] = "call"]
              /\ UNCHANGED ret
    /\ UNCHANGED <<aux, exports, mutex, event_ids, op, message, results, result_str, nested,
                   history>>

\* Lines 307-309: what the guest sees of the input buffer's release.
free_input(t) ==
    IF dealloc_func
    THEN <<Entry("dealloc_string", <<msg_ptr[t], Len(message[t])>>, << >>, 308)>>
    ELSE << >>

\* A send that frees the input buffer before the guest has used it.
send_call_after_free(t, r) ==
    free_input(t) \o <<Entry("send", <<msg_ptr[t], Len(message[t])>>, r, 304)>>

\* A send that calls the guest again when the call failed or gave the null
\* pointer.
send_call_retrying(t, r) ==
    IF r \in {<< >>, <<0>>}
    THEN <<Entry("send", <<msg_ptr[t], Len(message[t])>>, r, 304),
           Entry("send", <<msg_ptr[t], Len(message[t])>>, r, 304)>>
    ELSE <<Entry("send", <<msg_ptr[t], Len(message[t])>>, r, 304)>>

\* Lines 300-304: what the guest sees of the call of its send, which yields r.
send_call(t, r) == <<Entry("send", <<msg_ptr[t], Len(message[t])>>, r, 304)>>

\* Lines 300-304: the guest's send.
SendCall(t) ==
    /\ pc[t] = "call"
    /\ \E r \in CallResults :
         /\ results' = [results EXCEPT ![t] = r]
         /\ calllog' = [calllog EXCEPT ![t] = @ \o send_call(t, r)]
    /\ pc' = [pc EXCEPT ![t] = "free_in"]
    /\ UNCHANGED <<aux, exports, mutex, event_ids, op, message, msg_ptr, result_str, nested,
                   ret, history>>

\* A send that frees the input buffer only when the guest's call gave a result.
release_input_on_success(t) ==
    IF results[t] # << >> THEN free_input(t) ELSE << >>

\* Lines 306-309: the input buffer is released whatever the call gave.
release_input(t) == free_input(t)

\* A send that answers a null result with the message of a failed call.
null_result_as_failed == Value(str(NoticeFailed))

\* Line 317: what send returns for a null result pointer.
null_result == Value(str(NoticeNull))

\* Lines 306-318: free the input buffer, then look at the result.
SendFreeInput(t) ==
    /\ pc[t] = "free_in"
    /\ calllog' = [calllog EXCEPT ![t] = @ \o release_input(t)]
    /\ IF results[t] = << >>
       THEN /\ ret' = [ret EXCEPT ![t] = Value(str(NoticeFailed))]
            /\ pc' = [pc EXCEPT ![t] = "ret"]
       ELSE IF results[t][1] = 0
       THEN /\ ret' = [ret EXCEPT ![t] = null_result]
            /\ pc' = [pc EXCEPT ![t] = "ret"]
       ELSE /\ pc' = [pc EXCEPT ![t] = "read"]
            /\ UNCHANGED ret
    /\ UNCHANGED <<aux, exports, mutex, event_ids, op, message, msg_ptr, results, result_str,
                   nested, history>>

\* Line 321: read the result string at the result pointer.
SendRead(t) ==
    /\ pc[t] = "read"
    /\ \E s \in Replies : result_str' = [result_str EXCEPT ![t] = s]
    /\ calllog' = [calllog EXCEPT ![t] =
           Append(@, Entry("read_string", <<results[t][1]>>, << >>, 321))]
    /\ pc' = [pc EXCEPT ![t] = "free_out"]
    /\ UNCHANGED <<aux, exports, mutex, event_ids, op, message, msg_ptr, results, nested,
                   ret, history>>

\* A send that frees the result with the decoded length whatever
\* get_allocation_size answers.
free_result_decoded(t, size_results) ==
    LET result_ptr == results[t][1] IN
    IF ~dealloc_func THEN << >>
    ELSE (IF get_size_func
          THEN <<Entry("get_allocation_size", <<result_ptr>>, size_results, 327)>>
          ELSE << >>)
         \o <<Entry("dealloc_string", <<result_ptr, length(result_str[t])>>, << >>, 332)>>

\* Lines 324-333: what the guest sees of the result buffer's release, when
\* get_allocation_size answers size_results.
free_result(t, size_results) ==
    LET result_ptr == results[t][1]
        decoded == length(result_str[t])
        bytes == IF get_size_func /\ size_results # << >> THEN size_results[1] ELSE decoded
    IN  IF ~dealloc_func THEN << >>
        ELSE (IF get_size_func
              THEN <<Entry("get_allocation_size", <<result_ptr>>, size_results, 327)>>
              ELSE << >>)
             \o <<Entry("dealloc_string", <<result_ptr, bytes>>, << >>, 332)>>

\* Lines 323-333: free the result buffer.
SendFreeResult(t) ==
    /\ pc[t] = "free_out"
    /\ \E size_results \in (IF dealloc_func /\ get_size_func THEN AllocSizes ELSE {<< >>}) :
         calllog' = [calllog EXCEPT ![t] = @ \o free_result(t, size_results)]
    /\ pc' = [pc EXCEPT ![t] = "process"]
    /\ UNCHANGED <<aux, exports, mutex, event_ids, op, message, msg_ptr, results, result_str,
                   nested, ret, history>>

\* Lines 335-349: filter the reply and build the returned string.
SendProcess(t) ==
    /\ pc[t] = "process"
    /\ LET r == process_messages(result_str[t], event_ids)
           out == join(r.filtered) IN
         /\ event_ids' = r.ids
         /\ ret' = [ret EXCEPT ![t] = Value(out)]
         /\ returned' = [i \in EventIds |-> returned[i] + count_id(out, i)]
    /\ pc' = [pc EXCEPT ![t] = "ret"]
    /\ UNCHANGED <<aux, exports, mutex, op, message, msg_ptr, results, result_str, nested,
                   calllog, a_before>>

\* ---- Cassette::info ----

\* How info() hands back s: to its caller, or to the describe() that called it.
InfoReturn(t, s, inner) ==
    IF inner
    THEN /\ result_str' = [result_str EXCEPT ![t] = s]
         /\ pc' = [pc EXCEPT ![t] = "synth"]
         /\ UNCHANGED ret
    ELSE /\ ret' = [ret EXCEPT ![t] = Value(s)]
         /\ pc' = [pc EXCEPT ![t] = "ret"]
         /\ UNCHANGED result_str

\* Lines 356-359, with the mutex taken.
InfoBody(t, inner) ==
    IF ~info_func
    THEN InfoReturn(t, str(InfoStub), inner)
    ELSE /\ pc' = [pc EXCEPT ![t] = "info_call"]
         /\ UNCHANGED <<ret, result_str>>

\* Lines 354-359.
InfoEnter(t) ==
    /\ pc[t] = "lock" /\ op[t] = "info"
    /\ lock(t)
    /\ InfoBody(t, FALSE)
    /\ UNCHANGED <<aux, exports, event_ids, op, message, msg_ptr, results, nested, calllog,
                   history>>

\* An info() that takes only a failed call for a missing result.
info_failed_call_only(r) == r = << >>

\* Lines 364-371: the call gave no value, or the pointer 0.
info_failed(r) == r = << >> \/ r[1] = 0

\* Lines 362-371: the guest's info.
InfoCall(t) ==
    /\ pc[t] = "info_call"
    /\ \E r \in CallResults :
         /\ calllog' = [calllog EXCEPT ![t] = Append(@, Entry("info", << >>, r, 362))]
         /\ results' = [results EXCEPT ![t] = r]
         /\ IF info_failed(r)
            THEN InfoReturn(t, str(InfoStub), nested[t])
            ELSE /\ pc' = [pc EXCEPT ![t] = "info_read"]
                 /\ UNCHANGED <<ret, result_str>>
    /\ UNCHANGED <<aux, exports, mutex, event_ids, op, message, msg_ptr, nested, history>>

\* What the guest sees of the release of a string of info or describe.
free_string(t, s, line) ==
    IF dealloc_func
    THEN <<Entry("dealloc_string", <<results[t][1], length(s)>>, << >>, line)>>
    ELSE << >>

\* Lines 373-384: read the string, free it, return it.
InfoRead(t) ==
    /\ pc[t] = "info_read"
    /\ \E s \in InfoStrings :
         /\ calllog' = [calllog EXCEPT ![t] =
                Append(@, Entry("read_string", <<results[t][1]>>, s, 374))
                \o free_string(t, s, 378)]
         /\ InfoReturn(t, s, nested[t])
    /\ UNCHANGED <<aux, exports, mutex, event_ids, op, message, msg_ptr, results, nested,
                   history>>

\* ---- Cassette::describe ----

\* Lines 131-134 and 156: take the mutex; without a describe export go on to
\* call info().
DescribeEnter(t) ==
    /\ pc[t] = "lock" /\ op[t] = "describe"
    /\ lock(t)
    /\ pc' = [pc EXCEPT ![t] = IF describe_func THEN "desc_call" ELSE "info_lock"]
    /\ UNCHANGED <<aux, exports, event_ids, locals, history>>

\* Lines 135-140: the guest's describe.
DescribeCall(t) ==
    /\ pc[t] = "desc_call"
    /\ \E r \in CallResults :
         /\ calllog' = [calllog EXCEPT ![t] = Append(@, Entry("describe", << >>, r, 135))]
         /\ results' = [results EXCEPT ![t] = r]
         /\ IF r = << >>
            THEN /\ ret' = [ret EXCEPT ![t] = Error("describe function failed")]
                 /\ pc' = [pc EXCEPT ![t] = "ret"]
            ELSE /\ pc' = [pc EXCEPT ![t] = "desc_read"]
                 /\ UNCHANGED ret
    /\ UNCHANGED <<aux, exports, mutex, event_ids, op, message, msg_ptr, result_str, nested,
                   history>>

\* Lines 141-152: read_string (which throws on the null pointer), free, return.
DescribeRead(t) ==
    /\ pc[t] = "desc_read"
    /\ IF results[t][1] = 0
       THEN /\ ret' = [ret EXCEPT ![t] = Error("null pointer")]
            /\ UNCHANGED calllog
       ELSE \E desc \in DescStrings :
            /\ calllog' = [calllog EXCEPT ![t] =
                   Append(@, Entry("read_string", <<results[t][1]>>, << >>, 141))
                   \o free_string(t, desc, 149)]
            /\ ret' = [ret EXCEPT ![t] = Value(desc)]
    /\ pc' = [pc EXCEPT ![t] = "ret"]
    /\ UNCHANGED <<aux, exports, mutex, event_ids, op, message, msg_ptr, results, result_str,
                   nested, history>>

\* What locking a std::mutex the thread already owns can do (undefined
\* behaviour): block for ever, throw std::system_error, or go on as if the
\* mutex were recursive.
Relock == {"deadlock", "error", "recursive"}

\* Line 156 into line 354: describe(), holding the mutex, calls info(), whose
\* lock_guard locks the same mutex.
NestedLock(t) ==
    /\ pc[t] = "info_lock"
    /\ mutex = t
    /\ \E outcome \in Relock :
         IF outcome = "deadlock"
         THEN /\ pc' = [pc EXCEPT ![t] = "hung"]
              /\ UNCHANGED <<ret, result_str, nested>>
         ELSE IF outcome = "error"
         THEN /\ ret' = [ret EXCEPT ![t] = Error("system_error")]
              /\ pc' = [pc EXCEPT ![t] = "ret"]
              /\ UNCHANGED <<result_str, nested>>
         ELSE /\ nested' = [nested EXCEPT ![t] = TRUE]
              /\ InfoBody(t, TRUE)
    /\ UNCHANGED <<aux, exports, mutex, event_ids, op, message, msg_ptr, results, calllog,
                   history>>

\* Lines 157-180: the description made from the info string.
DescribeSynth(t) ==
    /\ pc[t] = "synth"
    /\ ret' = [ret EXCEPT ![t] = Value(str(synthesize(result_str[t])))]
    /\ pc' = [pc EXCEPT ![t] = "ret"]
    /\ UNCHANGED <<aux, exports, mutex, event_ids, op, message, msg_ptr, results, result_str,
                   nested, calllog, history>>

\* The call returns or throws: the lock_guard's destructor frees the mutex and
\* the call's locals are gone.
Return(t) ==
    /\ pc[t] = "ret"
    /\ mutex' = NoOwner
    /\ pc' = [pc EXCEPT ![t] = "idle"]
    /\ op' = [op EXCEPT ![t] = "none"]
    /\ message' = [message EXCEPT ![t] = ""]
    /\ msg_ptr' = [msg_ptr EXCEPT ![t] = 0]
    /\ results' = [results EXCEPT ![t] = << >>]
    /\ result_str' = [result_str EXCEPT ![t] = << >>]
    /\ nested' = [nested EXCEPT ![t] = FALSE]
    /\ ret' = [ret EXCEPT ![t] = NoRet]
    /\ calllog' = [calllog EXCEPT ![t] = << >>]
    /\ UNCHANGED <<aux, exports, event_ids, history>>

Next ==
    \E t \in Threads :
        \/ Call(t)
        \/ SendEnter(t) \/ SendAlloc(t) \/ SendCall(t) \/ SendFreeInput(t)
        \/ SendRead(t) \/ SendFreeResult(t) \/ SendProcess(t)
        \/ InfoEnter(t) \/ InfoCall(t) \/ InfoRead(t)
        \/ DescribeEnter(t) \/ DescribeCall(t) \/ DescribeRead(t)
        \/ NestedLock(t) \/ DescribeSynth(t)
        \/ Return(t)

Spec == Init /\ [][Next]_vars

\* The steps of thread t's call once it holds the mutex: guest calls return
\* and the host's own code runs on.
Proceed(t) ==
    \/ SendAlloc(t) \/ SendCall(t) \/ SendFreeInput(t)
    \/ SendRead(t) \/ SendFreeResult(t) \/ SendProcess(t)
    \/ InfoCall(t) \/ InfoRead(t)
    \/ DescribeCall(t) \/ DescribeRead(t)
    \/ NestedLock(t) \/ DescribeSynth(t)
    \/ Return(t)

\* The lock_guard at the head of send, info() and describe().
Enter(t) == SendEnter(t) \/ InfoEnter(t) \/ DescribeEnter(t)

\* The same program under a scheduler that lets every thread run, with guest
\* calls that return and a mutex that lets no waiting thread starve.
LiveSpec ==
    /\ Init /\ [][Next]_vars
    /\ \A t \in Threads : WF_vars(Proceed(t)) /\ SF_vars(Enter(t))

(***************************************************************************)
(* The MemoryManager taken alone.  Guest memory starts as any content over *)
(* Bytes; the guest may write a frame header, whole or cut by the end of   *)
(* memory, or a whole frame around a string; the host reads a string at a  *)
(* pointer, or writes one and reads it back.                               *)
(***************************************************************************)
MemSize == 11
MaxLen == 2

Bytes == {0, 65}

RECURSIVE Strings(_)
Strings(n) == IF n = 0 THEN {<< >>}
              ELSE Strings(n - 1) \cup
                   {Append(b, x) : b \in {c \in Strings(n - 1) : Len(c) = n - 1}, x \in Bytes}

\* The magic, and a text that differs from it in its last byte.
Magics == {Magic, <<77, 83, 71, 65>>}

\* Declared lengths as the guest writes them, lowest byte first.
Lengths == {<<0, 0, 0, 0>>, <<1, 0, 0, 0>>, <<2, 0, 0, 0>>, <<3, 0, 0, 0>>,
            <<0, 1, 0, 0>>, <<0, 0, 0, 1>>}

\* A string that is itself a frame of length 0.
FrameText == Magic \o <<0, 0, 0, 0>>

le32_bytes(n) == <<n % 256, (n \div 256) % 256, (n \div 65536) % 256, n \div 16777216>>

MemInit ==
    /\ describe_func = FALSE /\ info_func = FALSE
    /\ dealloc_func = FALSE /\ get_size_func = FALSE
    /\ Fresh
    /\ Constructed
    /\ HarnessIdle
    /\ AccessIdle
    /\ memory \in {b \in Strings(MemSize) : Len(b) = MemSize}
    /\ guest_ptr = 0 /\ wrote = << >> /\ got = NoRet /\ mpc = "start"

\* The guest writes a frame header at p; what goes beyond memory is not
\* written.
GuestHeader ==
    /\ mpc = "start"
    /\ \E p \in 1..(Len(memory) - 1), m \in Magics, l \in Lengths :
         LET hdr == m \o l
             room == Len(memory) - p IN
         memory' = memcpy(memory, p, SubSeq(hdr, 1, IF room < 8 THEN room ELSE 8))
    /\ mpc' = "header"
    /\ UNCHANGED <<cassette, ctor, harness, access, guest_ptr, wrote, got>>

\* The guest writes a whole frame around b at p.
GuestFrame ==
    /\ mpc = "start"
    /\ \E b \in Strings(MaxLen) :
         \E p \in 1..(Len(memory) - 8 - Len(b)) :
            /\ memory' = memcpy(memory, p, Magic \o le32_bytes(Len(b)) \o b)
            /\ guest_ptr' = p
            /\ wrote' = b
    /\ mpc' = "frame"
    /\ UNCHANGED <<cassette, ctor, harness, access, got>>

\* The host reads the string at any pointer in memory or at its end.
ReadString ==
    /\ mpc \in {"start", "header"}
    /\ \E q \in 0..Len(memory) :
         /\ guest_ptr' = q
         /\ got' = read_string(memory, q)
    /\ mpc' = "read"
    /\ UNCHANGED <<cassette, ctor, harness, access, memory, wrote>>

\* The host writes a string; alloc_string fails, gives 0, or gives a buffer
\* of the asked length in memory.
WriteString ==
    /\ mpc = "start"
    /\ \E b \in Strings(MaxLen) \cup {FrameText} :
         \E r \in {<< >>, <<0>>} \cup {<<p>> : p \in 1..(Len(memory) - Len(b))} :
            LET w == write_string(memory, b, r) IN
            /\ memory' = w.data
            /\ guest_ptr' = w.ptr
            /\ wrote' = b
            /\ got' = w.thrown
            /\ mpc' = IF w.thrown = NoRet THEN "written" ELSE "thrown"
    /\ UNCHANGED <<cassette, ctor, harness, access>>

\* The host reads the string at the pointer of the string last written.
ReadBack ==
    /\ mpc \in {"written", "frame"}
    /\ got' = read_string(memory, guest_ptr)
    /\ mpc' = IF mpc = "written" THEN "read_written" ELSE "read_frame"
    /\ UNCHANGED <<cassette, ctor, harness, access, memory, guest_ptr, wrote>>

MemNext == GuestHeader \/ GuestFrame \/ ReadString \/ WriteString \/ ReadBack

MemSpec == MemInit /\ [][MemNext]_vars

(***************************************************************************)
(* The MemoryManager with pointers of any value: the guest hands back a    *)
(* pointer before memory, in it, at its end or far beyond it.  An access   *)
(* outside memory is undefined behaviour: the process may be stopped by a  *)
(* fault or run on.                                                        *)
(***************************************************************************)
\* Pointers outside memory: negative ones near and far from zero, and one
\* far beyond the end.
FarPointers == {-1073741824, -9, -8, -4, -1, 1073741824}

AnyPointers == FarPointers \cup (0..(MemSize + 1))

InMemory(offsets) == offsets \subseteq (0..(Len(memory) - 1))

BoundsInit ==
    /\ describe_func = FALSE /\ info_func = FALSE
    /\ dealloc_func = FALSE /\ get_size_func = FALSE
    /\ Fresh
    /\ Constructed
    /\ HarnessIdle
    /\ AccessIdle
    /\ memory \in {[k \in 1..MemSize |-> b] : b \in Bytes}
                  \cup {[k \in 1..MemSize |-> IF k % 3 = 0 THEN 0 ELSE 65]}
    /\ guest_ptr = 0 /\ wrote = << >> /\ got = NoRet /\ mpc = "start"

\* Line 321, 141 or 374: the host reads the string at the pointer the guest
\* returned.
BoundsRead ==
    /\ mpc \in {"start", "header", "frame"}
    /\ \E q \in AnyPointers :
         LET touched == read_string_reads(memory, q) IN
         /\ guest_ptr' = q
         /\ read_at' = touched
         /\ IF InMemory(touched)
            THEN got' = (IF q >= 0 THEN read_string(memory, q) ELSE Value(<< >>))
            ELSE got' \in {Error("fault"), Value(<< >>)}
    /\ mpc' = "read"
    /\ UNCHANGED <<cassette, ctor, harness, memory, wrote, written_at>>

\* Line 297: the host writes a string at the pointer alloc_string returned.
BoundsWrite ==
    /\ mpc \in {"start", "header", "frame"}
    /\ \E b \in Strings(MaxLen), r \in {<< >>} \cup {<<q>> : q \in AnyPointers} :
         LET w == write_string(memory, b, r)
             touched == IF w.thrown = NoRet
                        THEN write_string_writes(memory, w.ptr, b) ELSE {} IN
         /\ guest_ptr' = w.ptr
         /\ wrote' = b
         /\ written_at' = touched
         /\ IF InMemory(touched)
            THEN /\ memory' = w.data
                 /\ got' = w.thrown
                 /\ mpc' = IF w.thrown = NoRet THEN "written" ELSE "thrown"
            ELSE \E fault \in BOOLEAN :
                 /\ memory' = w.data
                 /\ got' = IF fault THEN Error("fault") ELSE NoRet
                 /\ mpc' = IF fault THEN "thrown" ELSE "written"
    /\ UNCHANGED <<cassette, ctor, harness, read_at>>

BoundsNext == GuestHeader \/ GuestFrame \/ BoundsRead \/ BoundsWrite

BoundsSpec == BoundsInit /\ [][BoundsNext]_vars

(***************************************************************************)
(* The constructor taken alone, for every instance: each of the seven      *)
(* names exported as one of Kinds.                                         *)
(***************************************************************************)
CtorInit ==
    /\ instance \in [Required \cup Optional -> Kinds]
    /\ describe_func = FALSE /\ info_func = FALSE
    /\ dealloc_func = FALSE /\ get_size_func = FALSE
    /\ memory_manager = FALSE /\ send_func = FALSE
    /\ cpc = "memory" /\ failure = ""
    /\ Fresh
    /\ ManagerIdle
    /\ HarnessIdle
    /\ AccessIdle

\* The constructor throws: nothing more is resolved.
Throw(what) ==
    /\ failure' = what
    /\ cpc' = "failed"
    /\ UNCHANGED <<exports, memory_manager, send_func>>

\* Lines 24-28: the memory export; std::get throws when it is no memory.
CtorMemory ==
    /\ cpc = "memory"
    /\ IF instance["memory"] = "absent" THEN Throw("memory export not found")
       ELSE IF instance["memory"] # "memory" THEN Throw("bad_variant_access")
       ELSE /\ cpc' = "alloc_string"
            /\ UNCHANGED <<exports, memory_manager, send_func, failure>>
    /\ UNCHANGED <<instance, mutex, event_ids, pc, locals, history, manager, harness, access>>

\* Lines 30-34: alloc_string; std::get throws when it is no function.
CtorAlloc ==
    /\ cpc = "alloc_string"
    /\ IF instance["alloc_string"] = "absent" THEN Throw("alloc_string function not found")
       ELSE IF ~IsFunc(instance["alloc_string"]) THEN Throw("bad_variant_access")
       ELSE /\ memory_manager' = TRUE
            /\ cpc' = "send"
            /\ UNCHANGED <<exports, send_func, failure>>
    /\ UNCHANGED <<instance, mutex, event_ids, pc, locals, history, manager, harness, access>>

\* Lines 98-102: send.
CtorSend ==
    /\ cpc = "send"
    /\ IF ~IsFunc(instance["send"]) THEN Throw("send function not found")
       ELSE /\ send_func' = TRUE
            /\ cpc' = "describe"
            /\ UNCHANGED <<exports, memory_manager, failure>>
    /\ UNCHANGED <<instance, mutex, event_ids, pc, locals, history, manager, harness, access>>

\* Lines 105-127: an optional export is kept when it is a function.
CtorDescribe ==
    /\ cpc = "describe"
    /\ describe_func' = IsFunc(instance["describe"])
    /\ cpc' = "info"
    /\ UNCHANGED <<info_func, dealloc_func, get_size_func, instance, memory_manager,
                   send_func, failure, mutex, event_ids, pc, locals, history, manager, harness, access>>

CtorInfo ==
    /\ cpc = "info"
    /\ info_func' = IsFunc(instance["info"])
    /\ cpc' = "dealloc_string"
    /\ UNCHANGED <<describe_func, dealloc_func, get_size_func, instance, memory_manager,
                   send_func, failure, mutex, event_ids, pc, locals, history, manager, harness, access>>

CtorDealloc ==
    /\ cpc = "dealloc_string"
    /\ dealloc_func' = IsFunc(instance["dealloc_string"])
    /\ cpc' = "get_allocation_size"
    /\ UNCHANGED <<describe_func, info_func, get_size_func, instance, memory_manager,
                   send_func, failure, mutex, event_ids, pc, locals, history, manager, harness, access>>

CtorGetSize ==
    /\ cpc = "get_allocation_size"
    /\ get_size_func' = IsFunc(instance["get_allocation_size"])
    /\ cpc' = "done"
    /\ UNCHANGED <<describe_func, info_func, dealloc_func, instance, memory_manager,
                   send_func, failure, mutex, event_ids, pc, locals, history, manager, harness, access>>

CtorNext ==
    \/ CtorMemory \/ CtorAlloc \/ CtorSend
    \/ CtorDescribe \/ CtorInfo \/ CtorDealloc \/ CtorGetSize

CtorSpec == CtorInit /\ [][CtorNext]_vars

(***************************************************************************)
(* percentile taken alone: every short vector of times, some long ones in  *)
(* descending and in mixed order, and the three probabilities the harness  *)
(* asks for.                                                               *)
(***************************************************************************)
MaxSample == 3
MaxTime == 3

RECURSIVE Samples(_)
Samples(n) == IF n = 0 THEN {<< >>}
              ELSE Samples(n - 1) \cup
                   {Append(v, x) : v \in {w \in Samples(n - 1) : Len(w) = n - 1},
                                   x \in 1..MaxTime}

Descending(n) == [k \in 1..n |-> n + 1 - k]
\* The odd times ascending after the even times descending.
Mixed(n) == [k \in 1..n |-> IF 2 * k <= n THEN 2 * ((n \div 2) + 1 - k)
                                           ELSE 2 * (k - (n \div 2)) - 1]
LongSizes == {20, 21, 100, 101}

\* The probabilities of lines 322-324, in hundredths.
Probs == {50, 95, 99}

PctInit ==
    /\ describe_func = FALSE /\ info_func = FALSE
    /\ dealloc_func = FALSE /\ get_size_func = FALSE
    /\ Fresh
    /\ Constructed
    /\ ManagerIdle
    /\ sample \in Samples(MaxSample) \cup {Descending(n) : n \in LongSizes}
                  \cup {Mixed(n) : n \in LongSizes}
    /\ prob \in Probs
    /\ values = << >> /\ pvalue = 0 /\ ppc = "start"
    /\ BenchIdle
    /\ MainIdle
    /\ AccessIdle

\* Line 84: the vector is passed by value; percentile works on its copy.
PctCall ==
    /\ ppc = "start"
    /\ values' = sample
    /\ ppc' = "called"
    /\ UNCHANGED <<cassette, manager, ctor, access, bench, cli, sample, prob, pvalue>>

\* Lines 85-88.
PctReturn ==
    /\ ppc = "called"
    /\ pvalue' = percentile(values, prob)
    /\ values' = sort(values)
    /\ ppc' = "done"
    /\ UNCHANGED <<cassette, manager, ctor, access, bench, cli, sample, prob>>

PctNext == PctCall \/ PctReturn

PctSpec == PctInit /\ [][PctNext]_vars

(***************************************************************************)
(* benchmark_cassette taken alone, on a cassette file that is there.       *)
(***************************************************************************)
\* The first filters of generate_test_filters.
TestFilters == <<"empty", "limit_1">>

IterationChoices == {0, 1, 2}

\* What send returns: one message, or a list of messages.
Responses ==
    { Single(EvA), Single(Eose), Single(Notice), Single(""),
      List(<<EvA, EvB, Eose>>), List(<<EvA, Eose>>), List(<<Eose, Foo>>) }

\* Elapsed milliseconds.
Elapsed == {1, 2}

BenchInit ==
    /\ describe_func = FALSE /\ info_func = FALSE
    /\ dealloc_func = FALSE /\ get_size_func = FALSE
    /\ Fresh
    /\ Constructed
    /\ ManagerIdle
    /\ sample = << >> /\ values = << >> /\ prob = 0 /\ pvalue = 0 /\ ppc = "off"
    /\ iterations \in IterationChoices
    /\ idx = 0 /\ iter = 0
    /\ times = << >> /\ event_counts = << >>
    /\ filter_timings = << >> /\ filter_event_counts = << >>
    /\ bpc = "load"
    /\ returned_events = << >> /\ filter_returned = << >>
    /\ MainIdle
    /\ AccessIdle

\* Lines 102-125: load the cassette, read its info, warm up; any of it may
\* throw, which line 174 catches.
BenchLoad ==
    /\ bpc = "load"
    /\ \E thrown \in BOOLEAN : bpc' = IF thrown THEN "return" ELSE "filter"
    /\ UNCHANGED <<cassette, manager, ctor, access, pct, cli, iterations, idx, iter, times,
                   event_counts, filter_timings, filter_event_counts,
                   returned_events, filter_returned>>

\* Lines 129-135: the next filter, with empty vectors.
BenchFilter ==
    /\ bpc = "filter"
    /\ IF idx < Len(TestFilters)
       THEN /\ times' = << >> /\ event_counts' = << >> /\ iter' = 0
            /\ returned_events' = << >>
            /\ bpc' = "iterate"
       ELSE /\ bpc' = "return"
            /\ UNCHANGED <<times, event_counts, iter, returned_events>>
    /\ UNCHANGED <<cassette, manager, ctor, access, pct, cli, iterations, idx, filter_timings,
                   filter_event_counts, filter_returned>>

\* Lines 137-162: one iteration: send, the elapsed time, the events counted.
\* A send that throws ends the run at line 174.
BenchIterate ==
    /\ bpc = "iterate" /\ iter < iterations
    /\ \/ \E response \in Responses, elapsed_ms \in Elapsed :
            /\ times' = Append(times, elapsed_ms)
            /\ event_counts' = Append(event_counts, count_events(response))
            /\ returned_events' =
                   Append(returned_events,
                          Len(SelectSeq(response.messages, counts_as_event)))
            /\ iter' = iter + 1
            /\ UNCHANGED bpc
       \/ /\ bpc' = "return"
          /\ UNCHANGED <<times, event_counts, returned_events, iter>>
    /\ UNCHANGED <<cassette, manager, ctor, access, pct, cli, iterations, idx, filter_timings,
                   filter_event_counts, filter_returned>>

\* Lines 164-165: the filter's vectors go into the result.
BenchRecord ==
    /\ bpc = "iterate" /\ iter >= iterations
    /\ filter_timings' = (TestFilters[idx + 1] :> times) @@ filter_timings
    /\ filter_event_counts' = (TestFilters[idx + 1] :> event_counts) @@ filter_event_counts
    /\ filter_returned' = (TestFilters[idx + 1] :> returned_events) @@ filter_returned
    /\ idx' = idx + 1
    /\ bpc' = "filter"
    /\ UNCHANGED <<cassette, manager, ctor, access, pct, cli, iterations, iter, times, event_counts,
                   returned_events>>

\* Line 178.
BenchReturn ==
    /\ bpc = "return"
    /\ bpc' = "done"
    /\ UNCHANGED <<cassette, manager, ctor, access, pct, cli, iterations, idx, iter, times,
                   event_counts, filter_timings, filter_event_counts,
                   returned_events, filter_returned>>

BenchNext == BenchLoad \/ BenchFilter \/ BenchIterate \/ BenchRecord \/ BenchReturn

BenchSpec == BenchInit /\ [][BenchNext]_vars

(***************************************************************************)
(* The benchmark's main taken alone, on a file system that holds a         *)
(* cassette that loads, a file that is no cassette, and a directory.       *)
(***************************************************************************)
MaxArgs == 3

\* What an argument can be: an option name, a number, a word that is no
\* number, and four paths.
Args == {"-i", "--iterations", "5", "many",
         "ok.wasm", "bad.wasm", "dir", "missing.wasm"}

Argvs(n) == UNION {[1..k -> Args] : k \in 0..n}

\* fs::exists, and the paths fs::file_size can take the size of.
Exists == {"ok.wasm", "bad.wasm", "dir"}
RegularFiles == {"ok.wasm", "bad.wasm"}

\* The files the Cassette constructor accepts.
Loads == {"ok.wasm"}

\* std::stoi: the number a string starts with, std::invalid_argument when it
\* starts with none.
stoi(word) ==
    CASE word = "5" -> Value(5)
      [] OTHER -> Error("stoi")

\* benchmark_cassette as main sees it: line 100 throws when the size of the
\* path cannot be taken; a failure to load is caught at line 174 and the
\* result comes back without timings.
benchmark_cassette(cassette_path, n) ==
    IF cassette_path \notin RegularFiles
    THEN Error("file_size")
    ELSE Value([cassette_name |-> cassette_path,
                filter_timings |-> IF cassette_path \in Loads
                                   THEN [f \in 1..Len(TestFilters) |-> n]
                                   ELSE << >>])

argc == Len(argv) + 1

MainInit ==
    /\ describe_func = FALSE /\ info_func = FALSE
    /\ dealloc_func = FALSE /\ get_size_func = FALSE
    /\ Fresh
    /\ Constructed
    /\ ManagerIdle
    /\ sample = << >> /\ values = << >> /\ prob = 0 /\ pvalue = 0 /\ ppc = "off"
    /\ BenchIdle
    /\ AccessIdle
    /\ argv \in Argvs(MaxArgs)
    /\ arg_i = 0 /\ cli_iterations = 0
    /\ cassette_paths = << >> /\ path_idx = 0 /\ bench_results = << >>
    /\ saved = FALSE /\ exit_code = -1 /\ cpos = "start"

\* Lines 253-256.
MainUsage ==
    /\ cpos = "start"
    /\ argc < 2
    /\ exit_code' = 1
    /\ cpos' = "exited"
    /\ UNCHANGED <<cassette, manager, ctor, access, pct, bench, argv, arg_i, cli_iterations,
                   cassette_paths, path_idx, bench_results, saved>>

\* Lines 258-262.
MainStart ==
    /\ cpos = "start"
    /\ ~(argc < 2)
    /\ cli_iterations' = 100
    /\ arg_i' = 1
    /\ cpos' = "parse"
    /\ UNCHANGED <<cassette, manager, ctor, access, pct, bench, argv,
                   cassette_paths, path_idx, bench_results, saved, exit_code>>

\* Lines 262-271, one argument; the exception of std::stoi is caught
\* nowhere and ends the process through std::terminate, that is by SIGABRT
\* (signal 6), which a shell reports as 128 + 6.
MainParse ==
    /\ cpos = "parse"
    /\ arg_i < argc
    /\ LET arg == argv[arg_i] IN
       IF arg = "--iterations" \/ arg = "-i"
       THEN IF arg_i + 1 < argc
            THEN LET r == stoi(argv[arg_i + 1]) IN
                 IF r.kind = "error"
                 THEN /\ exit_code' = 128 + 6
                      /\ cpos' = "exited"
                      /\ UNCHANGED <<arg_i, cli_iterations, cassette_paths>>
                 ELSE /\ cli_iterations' = r.val
                      /\ arg_i' = arg_i + 2
                      /\ UNCHANGED <<cassette_paths, exit_code, cpos>>
            ELSE /\ arg_i' = arg_i + 1
                 /\ UNCHANGED <<cli_iterations, cassette_paths, exit_code, cpos>>
       ELSE /\ cassette_paths' = Append(cassette_paths, arg)
            /\ arg_i' = arg_i + 1
            /\ UNCHANGED <<cli_iterations, exit_code, cpos>>
    /\ UNCHANGED <<cassette, manager, ctor, access, pct, bench, argv,
                   path_idx, bench_results, saved>>

\* Lines 273-276.
MainNoPaths ==
    /\ cpos = "parse"
    /\ ~(arg_i < argc)
    /\ cassette_paths = << >>
    /\ exit_code' = 1
    /\ cpos' = "exited"
    /\ UNCHANGED <<cassette, manager, ctor, access, pct, bench, argv, arg_i, cli_iterations,
                   cassette_paths, path_idx, bench_results, saved>>

\* Lines 278-285.
MainRun ==
    /\ cpos = "parse"
    /\ ~(arg_i < argc)
    /\ cassette_paths # << >>
    /\ path_idx' = 1
    /\ cpos' = "run"
    /\ UNCHANGED <<cassette, manager, ctor, access, pct, bench, argv, arg_i, cli_iterations,
                   cassette_paths, bench_results, saved, exit_code>>

\* Lines 287-298, one path.
MainCassette ==
    /\ cpos = "run"
    /\ path_idx <= Len(cassette_paths)
    /\ LET path == cassette_paths[path_idx]
           r == benchmark_cassette(path, cli_iterations) IN
       bench_results' = IF path \in Exists /\ r.kind = "value"
                        THEN Append(bench_results, r.val)
                        ELSE bench_results
    /\ path_idx' = path_idx + 1
    /\ UNCHANGED <<cassette, manager, ctor, access, pct, bench, argv, arg_i, cli_iterations,
                   cassette_paths, saved, exit_code, cpos>>

\* Lines 300-349.
MainReturn ==
    /\ cpos = "run"
    /\ ~(path_idx <= Len(cassette_paths))
    /\ saved' = (bench_results # << >>)
    /\ exit_code' = 0
    /\ cpos' = "exited"
    /\ UNCHANGED <<cassette, manager, ctor, access, pct, bench, argv, arg_i, cli_iterations,
                   cassette_paths, path_idx, bench_results>>

MainNext ==
    \/ MainUsage \/ MainStart \/ MainParse \/ MainNoPaths \/ MainRun
    \/ MainCassette \/ MainReturn

MainSpec == MainInit /\ [][MainNext]_vars

(***************************************************************************)
(* The claims.                                                             *)
(***************************************************************************)

\* send went through to a result string: the guest returned a non-null
\* pointer and the reply at it was read.
SendPcs == {"alloc", "call", "free_in", "read", "free_out", "process", "ret"}
Replied(t) == op[t] = "send" /\ pc[t] = "ret" /\ ret[t].kind = "value"
              /\ results[t] # << >> /\ results[t][1] # 0

\* What a message must be to be a message the loader recognizes.
IsKnownMessage(m) ==
    LET j == JsonParse(m) IN
    /\ j.type = "array" /\ Len(j.items) >= 2
    /\ j.items[1].type = "string"
    /\ j.items[1].str \in {"EVENT", "NOTICE", "EOSE"}

Range(q) == {q[k] : k \in 1..Len(q)}

\* C1: since the last REQ, no EVENT message with the same string event id has
\* been returned to callers twice, in one reply or over several sends.
C1_DedupWithinReq == \A i \in EventIds : returned[i] <= 1

\* C1's case: a send after the window's REQ (a CLOSE) whose reply holds the
\* EVENT with id a twice, the id having been returned before: nothing of it
\* is returned again.
C1_Witness ==
    \E t \in Threads :
        /\ Replied(t) /\ message[t] = CloseA
        /\ result_str[t] = <<EvA, NL, EvA, NL, Eose>>
        /\ returned["a"] = 1
        /\ ret[t].val = <<Eose>>

\* C2: a send whose message is a REQ, for any subscription id, has emptied the
\* tracker before the reply is filtered, so what it returns and what the
\* tracker holds afterwards are those of filtering the reply against an empty
\* tracker.
C2_ResetOnReq ==
    \A t \in Threads :
        (op[t] = "send" /\ IsReq(message[t])) =>
            /\ (pc[t] \in SendPcs \ {"ret"}) => event_ids = {}
            /\ Replied(t) =>
                 /\ ret[t].val = join(process_messages(result_str[t], {}).filtered)
                 /\ event_ids = process_messages(result_str[t], {}).ids

\* C2's case: the EVENT with id a was returned before this REQ, which is for
\* another subscription, and is returned again under it.
C2_Witness ==
    \E t \in Threads :
        /\ Replied(t) /\ message[t] = ReqB
        /\ a_before
        /\ count_id(ret[t].val, "a") = 1

At(t, line) == SelectSeq(calllog[t], LAMBDA e : e.at = line)
Called(t, fn) == SelectSeq(calllog[t], LAMBDA e : e.fn = fn)

\* C4: at most one host call is between taking and releasing the mutex; every
\* guest call and every access to guest memory is made by the thread that
\* holds the mutex, and the mutex is given up only when the call is over, so
\* the guest sees the steps of one call as one block.
C4_Serialized ==
    /\ [](\A t \in Threads : pc[t] \notin {"idle", "lock"} => mutex = t)
    /\ [][\A t \in Threads :
            /\ (calllog'[t] # calllog[t] /\ calllog'[t] # << >>) =>
                   (mutex = t /\ mutex' = t)
            /\ (mutex = t /\ mutex' # t) => (pc[t] = "ret" /\ pc'[t] = "idle")]_vars

\* C4's case: one thread is in the middle of send, the guest's send called and
\* the result not yet read, while the other has called describe and waits.
C4_Witness ==
    /\ pc["t1"] = "read" /\ op["t1"] = "send" /\ mutex = "t1"
    /\ Len(calllog["t1"]) >= 3
    /\ pc["t2"] = "lock" /\ op["t2"] = "describe"

\* C5: once write_string has returned a pointer, the input buffer is released
\* exactly once, after the guest's send, by dealloc_string(pointer, message
\* length) when that export is present, whatever the guest's send gave.
C5_InputFreedOnce ==
    \A t \in Threads :
        (op[t] = "send" /\ msg_ptr[t] # 0) =>
            LET frees == At(t, 308) IN
            IF pc[t] \in {"read", "free_out", "process", "ret"} /\ dealloc_func
            THEN /\ Len(frees) = 1
                 /\ frees[1].fn = "dealloc_string"
                 /\ frees[1].args = <<msg_ptr[t], Len(message[t])>>
                 /\ Called(t, "memcpy")[1].args = <<msg_ptr[t], Len(message[t])>>
            ELSE frees = << >>

\* C5's case: the guest's send failed and the input buffer was released.
C5_Witness ==
    \E t \in Threads :
        /\ op[t] = "send" /\ pc[t] = "ret" /\ msg_ptr[t] = 2
        /\ results[t] = << >> /\ ret[t] = Value(<<NoticeFailed>>)
        /\ Len(At(t, 308)) = 1

\* C6: after a non-null result pointer the result buffer is released exactly
\* once, when dealloc_string is present, with the size get_allocation_size
\* returned when that export is present (the decoded length when its call
\* gave no value), else with the decoded length; after a null result pointer
\* nothing is released for the result.
C6_ResultFreedOnce ==
    \A t \in Threads :
        (op[t] = "send" /\ pc[t] \in {"process", "ret"} /\ results[t] # << >>) =>
            LET frees == At(t, 332)
                result_ptr == results[t][1]
                sizes == Called(t, "get_allocation_size") IN
            IF result_ptr = 0 \/ ~dealloc_func
            THEN frees = << >> /\ sizes = << >>
            ELSE /\ Len(frees) = 1
                 /\ frees[1].fn = "dealloc_string"
                 /\ frees[1].args[1] = result_ptr
                 /\ get_size_func => (Len(sizes) = 1 /\ sizes[1].args = <<result_ptr>>)
                 /\ frees[1].args[2] =
                        IF get_size_func /\ sizes[1].ret # << >>
                        THEN sizes[1].ret[1] ELSE length(result_str[t])
                 /\ result_ptr # msg_ptr[t] =>
                        Len(SelectSeq(calllog[t], LAMBDA e :
                                e.fn = "dealloc_string" /\ e.args[1] = result_ptr)) = 1

\* C6's case: get_allocation_size answered 64 for a result of another length,
\* and the result was released with 64.
C6_Witness ==
    \E t \in Threads :
        /\ Replied(t) /\ dealloc_func /\ get_size_func
        /\ result_str[t] = <<EvA, NL, EvB, NL, Eose>>
        /\ Called(t, "get_allocation_size")[1].ret = <<64>>
        /\ At(t, 332)[1].args = <<results[t][1], 64>>

\* The place of a guest-visible step in the order of one send.
Rank(e) ==
    CASE e.fn = "alloc_string" -> 1
      [] e.fn = "memcpy" -> 2
      [] e.fn = "send" -> 3
      [] e.fn = "dealloc_string" /\ e.at = 308 -> 4
      [] e.fn = "read_string" -> 5
      [] e.fn = "get_allocation_size" -> 6
      [] e.fn = "dealloc_string" /\ e.at = 332 -> 7
      [] OTHER -> 0

\* C7: within one send the guest sees: input allocation, the guest's send,
\* input release, result read, result release, in this order; the input is
\* released only after the guest's send has returned and the result only
\* after it has been read.
C7_StepOrder ==
    \A t \in Threads :
        op[t] = "send" =>
            LET log == calllog[t] IN
            /\ \A i, j \in 1..Len(log) : i < j => Rank(log[i]) < Rank(log[j])
            /\ \A j \in 1..Len(log) :
                 /\ Rank(log[j]) = 4 => \E i \in 1..(j - 1) : log[i].fn = "send"
                 /\ Rank(log[j]) = 7 =>
                        \E i \in 1..(j - 1) : /\ log[i].fn = "read_string"
                                              /\ log[i].args[1] = log[j].args[1]

\* C7's case: a send that went through all seven steps.
C7_Witness ==
    \E t \in Threads :
        /\ Replied(t)
        /\ [k \in 1..Len(calllog[t]) |-> Rank(calllog[t][k])] = <<1, 2, 3, 4, 5, 6, 7>>

\* C8: when the guest's send returns pointer 0, send returns the one NOTICE
\* "send() returned null pointer" and raises nothing, reads no result from
\* guest memory, and leaves the tracker as the possible REQ reset left it.
C8_NullResult ==
    /\ [](\A t \in Threads :
            (op[t] = "send" /\ pc[t] = "ret" /\ results[t] = <<0>>) =>
                /\ ret[t] = Value(<<NoticeNull>>)
                /\ messages_of(ret[t].val) = <<NoticeNull>>
                /\ Called(t, "read_string") = << >>
                /\ At(t, 332) = << >>
                /\ IsReq(message[t]) => event_ids = {})
    /\ [][\A t \in Threads :
            (op[t] = "send" /\ results[t] = <<0>> /\ pc[t] \in {"free_in", "ret"}) =>
                event_ids' = event_ids]_vars

\* C8's case: a CLOSE answered with a null pointer while the tracker holds an
\* id: the NOTICE is returned and the tracker still holds the id.
C8_Witness ==
    \E t \in Threads :
        /\ op[t] = "send" /\ pc[t] = "ret" /\ results[t] = <<0>>
        /\ message[t] = CloseA /\ event_ids = {"a"}
        /\ ret[t] = Value(<<NoticeNull>>)

\* C9: on a module without the describe export, describe() returns a
\* non-empty string made from what info() returns.
C9_DescribeFromInfo ==
    \A t \in Threads :
        (op[t] = "describe" /\ ~describe_func) =>
            /\ pc[t] # "hung"
            /\ pc[t] = "ret" =>
                 /\ ret[t].kind = "value"
                 /\ ret[t].val # << >>
                 /\ ret[t].val = <<synthesize(result_str[t])>>

\* C10: describe() never raises, also when the describe export returns
\* pointer 0: it returns a string.
C10_DescribeNeverRaises ==
    \A t \in Threads :
        (op[t] = "describe" /\ pc[t] = "ret" /\ describe_func /\ results[t] = <<0>>) =>
            ret[t].kind = "value"

\* C11: info() returns exactly the stub {"supported_nips": []} when the info
\* export is absent (and then no guest function is called and guest memory is
\* not read), when the guest's call gives no result value and when it gives
\* pointer 0 (and then nothing is read); in every other case it returns the
\* string read at the result pointer as it is, the empty string included.
C11_InfoStub ==
    \A t \in Threads :
        (op[t] = "info" /\ pc[t] = "ret") =>
            LET reads == Called(t, "read_string") IN
            /\ ret[t].kind = "value"
            /\ ~info_func => (ret[t].val = <<InfoStub>> /\ calllog[t] = << >>)
            /\ (info_func /\ results[t] \in {<< >>, <<0>>}) =>
                   /\ ret[t].val = <<InfoStub>>
                   /\ reads = << >>
                   /\ Called(t, "info") = <<Entry("info", << >>, results[t], 362)>>
            /\ (info_func /\ results[t] \notin {<< >>, <<0>>}) =>
                   /\ Len(reads) = 1
                   /\ reads[1].args = <<results[t][1]>>
                   /\ ret[t].val = reads[1].ret

\* C11's case: the guest's info returned pointer 0 and info() answers with the
\* stub without reading guest memory.
C11_Witness ==
    \E t \in Threads :
        /\ op[t] = "info" /\ pc[t] = "ret" /\ info_func
        /\ results[t] = <<0>>
        /\ ret[t] = Value(<<InfoStub>>)
        /\ Called(t, "read_string") = << >>

\* The claim's words for read_string, on memory data and the pointer p.
HasMagic(data, p) ==
    /\ p + 4 <= Len(data)
    /\ \A k \in 0..3 : data[p + k + 1] = Magic[k + 1]
Declared(data, p) ==
    data[p + 5] + 256 * data[p + 6] + 65536 * data[p + 7] + 16777216 * data[p + 8]
Framed(data, p) ==
    HasMagic(data, p) /\ p + 8 <= Len(data) /\ p + 8 + Declared(data, p) <= Len(data)
\* The offset of the first zero byte at or after p, or the size of memory.
FirstZero(data, p) ==
    CHOOSE z \in p..Len(data) :
        /\ z = Len(data) \/ data[z + 1] = 0
        /\ \A k \in p..(z - 1) : data[k + 1] # 0

\* C12: read_string at pointer 0 fails with "null pointer"; at any other
\* pointer in memory, when the four bytes there are MSGB and the declared
\* length fits in memory, it gives exactly the declared number of bytes after
\* the header, zero bytes included; in every other case it gives, without
\* raising, the bytes from the pointer up to the first zero byte or the end of
\* memory; at the end of memory that is the empty string.
C12_ReadFormat ==
    mpc = "read" =>
        IF guest_ptr = 0 THEN got = Error("null pointer")
        ELSE /\ got.kind = "value"
             /\ IF Framed(memory, guest_ptr)
                THEN /\ Len(got.val) = Declared(memory, guest_ptr)
                     /\ \A i \in 1..Len(got.val) : got.val[i] = memory[guest_ptr + 8 + i]
                ELSE /\ Len(got.val) = FirstZero(memory, guest_ptr) - guest_ptr
                     /\ \A i \in 1..Len(got.val) : got.val[i] = memory[guest_ptr + i]
             /\ guest_ptr = Len(memory) => got.val = << >>

\* C12's case: a header with the magic whose declared length goes beyond
\* memory, read by the null-terminated reader, magic included.
C12_Witness ==
    /\ mpc = "read" /\ guest_ptr = 2
    /\ HasMagic(memory, guest_ptr) /\ Declared(memory, guest_ptr) = 2
    /\ guest_ptr + 8 + 2 > Len(memory)
    /\ got = Value(Magic \o <<2>>)

\* A frame read through the MSGB reader with a zero byte in its payload.
C12_FrameRead ==
    /\ mpc = "read" /\ guest_ptr = 1
    /\ Framed(memory, guest_ptr)
    /\ got = Value(<<0, 65>>)

\* b up to its first zero byte.
TruncZ(b) ==
    LET zeros == {i \in 1..Len(b) : b[i] = 0} IN
    IF zeros = {} THEN b
    ELSE SubSeq(b, 1, (CHOOSE i \in zeros : \A j \in zeros : i <= j) - 1)

\* C13 as stated: whatever memory held before, a string written by
\* write_string and read back at the returned pointer by the null-terminated
\* reader is the string up to its first zero byte, and a guest-written frame
\* around a string reads back as that string.
C13_Original ==
    /\ (mpc = "read_written" /\ ~Framed(memory, guest_ptr)) =>
           got = Value(TruncZ(wrote))
    /\ mpc = "read_frame" => got = Value(wrote)

\* C13, amended: write_string copies the string to the returned pointer and
\* changes no other byte (no terminator); read back by the null-terminated
\* reader, a string with a zero byte gives the string up to that byte, and a
\* string without one gives the string followed by the bytes that memory
\* holds after the buffer up to the first zero byte or the end of memory; a
\* guest-written frame around a string reads back as exactly that string.
C13_RoundTrip ==
    /\ [](/\ (mpc = "read_written" /\ ~Framed(memory, guest_ptr)) =>
                got = Value(IF TruncZ(wrote) # wrote THEN TruncZ(wrote)
                            ELSE LET after == guest_ptr + Len(wrote) IN
                                 wrote \o SubSeq(memory, after + 1,
                                                 FirstZero(memory, after)))
          /\ mpc = "read_frame" => got = Value(wrote))
    /\ [][(mpc = "start" /\ mpc' = "written") =>
            /\ Len(memory') = Len(memory)
            /\ \A k \in 0..(Len(memory) - 1) :
                   memory'[k + 1] =
                       IF k >= guest_ptr' /\ k < guest_ptr' + Len(wrote')
                       THEN wrote'[k - guest_ptr' + 1] ELSE memory[k + 1]]_vars

\* C13's case: a string without a zero byte written before a byte that is
\* not zero and read back with that byte at its end.
C13_Witness ==
    /\ mpc = "read_written" /\ wrote = <<65, 65>> /\ guest_ptr = 3
    /\ memory[guest_ptr + 3] = 65 /\ memory[guest_ptr + 4] = 0
    /\ got = Value(<<65, 65, 65>>)

\* A frame around a string with a zero byte, read back whole.
C13_FrameBack ==
    /\ mpc = "read_frame" /\ wrote = <<65, 0>> /\ got = Value(<<65, 0>>)

\* C14: when alloc_string gives pointer 0 or its call fails, write_string
\* throws and leaves guest memory as it was, and send ends with that error:
\* the guest has seen the allocation call and nothing else, no copy into its
\* memory, no call of its send, no dealloc_string.
C14_AllocationFailure ==
    \A t \in Threads :
        (op[t] = "send" /\ calllog[t] # << >>
         /\ calllog[t][1].ret \in {<< >>, <<0>>}) =>
            LET r == calllog[t][1].ret IN
            /\ pc[t] = "ret"
            /\ ret[t].kind = "error"
            /\ ret[t] = alloc_error(r)
            /\ calllog[t] = <<Entry("alloc_string", <<Len(message[t])>>, r, 39)>>
            /\ msg_ptr[t] = 0
            /\ \A data \in {<<65, 0, 65>>}, b \in {<< >>, <<65>>} :
                   write_string(data, b, r) =
                       [thrown |-> ret[t], ptr |-> 0, data |-> data]

\* C14's case: alloc_string gave pointer 0 for a REQ; send ends with the error
\* and the guest has seen one call.
C14_Witness ==
    \E t \in Threads :
        /\ op[t] = "send" /\ pc[t] = "ret" /\ message[t] = ReqA
        /\ ret[t] = Error("allocation returned null pointer")
        /\ Len(calllog[t]) = 1 /\ calllog[t][1].ret = <<0>>

IsEvent(m) ==
    LET j == JsonParse(m) IN
    j.type = "array" /\ Len(j.items) >= 1 /\ j.items[1] = JStr("EVENT")
IsNotice(m) ==
    LET j == JsonParse(m) IN
    j.type = "array" /\ Len(j.items) >= 1 /\ j.items[1] = JStr("NOTICE")

\* The lines of the guest's reply to thread t's send; none when the guest's
\* call failed or gave the null pointer.
ReplyLines(t) ==
    IF results[t] \in {<< >>, <<0>>} THEN << >> ELSE messages_of(result_str[t])

\* C15: on every path of send, every EVENT message returned is, byte for
\* byte, a line of the guest's reply to that call, and every returned message
\* that is not a line of the reply is a NOTICE of the loader's own; when the
\* guest's call failed or gave the null pointer nothing was read and the one
\* message returned is that NOTICE.
C15_NoFabricatedEvent ==
    \A t \in Threads :
        (op[t] = "send" /\ pc[t] = "ret" /\ ret[t].kind = "value") =>
            LET msgs == Range(messages_of(ret[t].val))
                lines == Range(ReplyLines(t)) IN
            /\ \A m \in msgs : IsEvent(m) => m \in lines
            /\ \A m \in msgs \ lines :
                   IsNotice(m) /\ ~IsEvent(m) /\ m \in {NoticeFailed, NoticeNull}
            /\ results[t] \in {<< >>, <<0>>} =>
                   /\ result_str[t] = << >>
                   /\ Len(messages_of(ret[t].val)) = 1

\* C15's case: a reply of two EVENT lines and an EOSE, all three returned as
\* they were written.
C15_Witness ==
    \E t \in Threads :
        /\ Replied(t)
        /\ ret[t].val = <<EvA, NL, EvB, NL, Eose>>
        /\ ReplyLines(t) = <<EvA, EvB, Eose>>
        /\ IsEvent(EvA) /\ IsEvent(EvB)

\* An export that is there with another signature than the documented one,
\* or is not of the documented kind at all.
WrongSignature(n) ==
    /\ instance[n] # "absent"
    /\ instance[n] # (IF n = "memory" THEN "memory" ELSE "func")

\* C16: construction fails when memory, alloc_string or send is missing or
\* when an export that is there has the wrong signature; with the three
\* required exports there and well-typed it succeeds for every set of
\* optional exports, each recorded as present or absent.
C16_Construction ==
    cpc \in {"done", "failed"} =>
        /\ ((\E n \in Required : instance[n] = "absent")
            \/ (\E n \in Required \cup Optional : WrongSignature(n)))
               => (cpc = "failed" /\ failure # "")
        /\ (/\ \A n \in Required : instance[n] # "absent" /\ ~WrongSignature(n)
            /\ \A n \in Optional : ~WrongSignature(n)) =>
               /\ cpc = "done" /\ failure = ""
               /\ describe_func = (instance["describe"] = "func")
               /\ info_func = (instance["info"] = "func")
               /\ dealloc_func = (instance["dealloc_string"] = "func")
               /\ get_size_func = (instance["get_allocation_size"] = "func")

\* The element at index k, from 0, of s in ascending order: the value with
\* at most k elements below it and more than k elements not above it.
KthSmallest(s, k) ==
    CHOOSE v \in Range(s) :
        /\ Cardinality({i \in 1..Len(s) : s[i] < v}) <= k
        /\ Cardinality({i \in 1..Len(s) : s[i] <= v}) > k

\* C17: for a sample of size n > 0 and p in {0.5, 0.95, 0.99}, percentile
\* returns the element at index min(floor(p * n), n - 1) of the sample in
\* ascending order, and the caller's vector keeps its order.
C17_Percentile ==
    /\ []((ppc = "done" /\ sample # << >>) =>
            LET n == Len(sample)
                k == IF (prob * n) \div 100 < n - 1 THEN (prob * n) \div 100 ELSE n - 1
            IN  pvalue = KthSmallest(sample, k))
    /\ [][sample' = sample]_vars

\* C17's case: 21 times in descending order and p = 0.95: index 19 of the
\* sorted sample, which is not its last, while the caller's vector is still
\* in descending order.
C17_Witness ==
    /\ ppc = "done" /\ prob = 95
    /\ sample = Descending(21)
    /\ pvalue = 20
    /\ values # sample

\* C18: for each filter the harness records exactly as many timing samples
\* and event counts as iterations were asked for, and the count recorded for
\* an iteration is the number of EVENT messages its send returned, whether
\* send returned one message or a list.
C18_Measurement ==
    /\ Len(times) = Len(event_counts)
    /\ event_counts = returned_events
    /\ \A f \in DOMAIN filter_timings :
           /\ Len(filter_timings[f]) = iterations
           /\ Len(filter_event_counts[f]) = iterations
           /\ filter_event_counts[f] = filter_returned[f]

\* C19: the benchmark exits 1 when it is given no argument or when no
\* cassette is resolvable (no cassette path among the arguments, or none of
\* the paths given exists and loads), and exits 0 otherwise.
Resolvable(path) == path \in Exists /\ path \in Loads

C19_ExitStatus ==
    cpos = "exited" =>
        exit_code = IF \/ argc < 2
                       \/ ~ \E k \in 1..Len(cassette_paths) :
                              Resolvable(cassette_paths[k])
                    THEN 1 ELSE 0

\* a is b with some of its elements left out, the others in b's order.
RECURSIVE IsSubsequence(_, _)
IsSubsequence(a, b) ==
    IF a = << >> THEN TRUE
    ELSE IF b = << >> THEN FALSE
    ELSE IF Head(a) = Head(b) THEN IsSubsequence(Tail(a), Tail(b))
    ELSE IsSubsequence(a, Tail(b))

\* C20: the messages send returns for a guest reply are, in the reply's
\* order and byte for byte, some of the non-empty lines of that reply: none
\* is rewritten, none moved, none returned more often than the reply has it.
C20_OrderPreserved ==
    \A t \in Threads :
        Replied(t) =>
            LET msgs == messages_of(ret[t].val)
                lines == messages_of(result_str[t]) IN
            IsSubsequence(msgs, lines)

\* C20's case: the reply has an EVENT seen before, a new EVENT and an EOSE;
\* the first is dropped and the other two come back in the reply's order.
C20_Witness ==
    \E t \in Threads :
        /\ Replied(t)
        /\ messages_of(result_str[t]) = <<EvA, EvB, Eose>>
        /\ messages_of(ret[t].val) = <<EvB, Eose>>

\* A reply without a newline that is no JSON, or JSON that is no array.
Opaque(reply) ==
    /\ ~has_newline(reply)
    /\ LET j == JsonParse(text_of(reply)) IN j = JErr \/ j.type # "array"

\* C21: a guest reply without a newline that fails to parse, or parses to a
\* value that is no array, is returned as it is, as the one result, and the
\* tracker's set stays what it was.
C21_PassThrough ==
    [][\A t \in Threads :
          (pc[t] = "process" /\ pc'[t] = "ret" /\ Opaque(result_str[t])) =>
              /\ ret'[t] = Value(result_str[t])
              /\ Len(messages_of(ret'[t].val)) <= 1
              /\ event_ids' = event_ids]_vars

\* C21's case: a JSON object came back alone, while the tracker held an id.
C21_Witness ==
    \E t \in Threads :
        /\ Replied(t)
        /\ result_str[t] = <<ObjText>> /\ Opaque(result_str[t])
        /\ ret[t].val = <<ObjText>>
        /\ event_ids = {"a"}

\* A message that does not carry the tag REQ: it is no JSON, no array, or its
\* first element is something else.
NonReq(m) ==
    LET j == JsonParse(m) IN
    ~(j.type = "array" /\ Len(j.items) >= 1 /\ j.items[1] = JStr("REQ"))

\* Texts without the tag REQ: a CLOSE, other tags, a number for a tag, an
\* object, an empty array, and texts that are no JSON.
NonReqTexts == {CloseA, EvA, Notice, Eose, Bogus, NumTag, ObjText, EmptyArr,
                OneElem, Garbage, Foo, ""}

\* C22: a send whose message is a CLOSE, carries another tag than REQ or
\* does not parse leaves the tracker's set as it was on entry and never
\* takes an id out of it; the guest's send is called with the pointer the
\* message was copied to and the message's length, the message being the
\* caller's throughout; nothing but the tracker's set is kept by the loader.
C22_NonReqKeepsState ==
    /\ [](/\ \A m \in NonReqTexts : NonReq(m) /\ ~resets_tracker(m)
          /\ \A t \in Threads :
                (op[t] = "send" /\ pc[t] \in SendPcs /\ NonReq(message[t])
                 /\ Called(t, "send") # << >>) =>
                    /\ Called(t, "send") = send_call(t, results[t])
                    /\ Called(t, "memcpy") =
                           <<Entry("memcpy", <<msg_ptr[t], Len(message[t])>>, << >>, 51)>>)
    /\ [][\A t \in Threads :
            /\ (op[t] = "send" /\ pc[t] = "lock" /\ pc'[t] = "alloc"
                /\ NonReq(message'[t])) => event_ids' = event_ids
            /\ (op[t] = "send" /\ pc[t] \in SendPcs /\ NonReq(message[t])) =>
                   /\ event_ids \subseteq event_ids'
                   /\ pc'[t] # "idle" => message'[t] = message[t]]_vars

\* C22's case: a CLOSE entered while the tracker held both ids; the guest's
\* send has been called with it and the tracker still holds them.
C22_Witness ==
    \E t \in Threads :
        /\ op[t] = "send" /\ pc[t] = "free_in" /\ message[t] = CloseA
        /\ event_ids = {"a", "b"}
        /\ Called(t, "send") =
               <<Entry("send", <<msg_ptr[t], Len(CloseA)>>, results[t], 304)>>

Count(q, m) == Len(SelectSeq(q, LAMBDA x : x = m))

\* An EVENT candidate: an array of at least two elements with the tag EVENT.
IsEventLine(m) ==
    LET j == JsonParse(m) IN
    j.type = "array" /\ Len(j.items) >= 2 /\ j.items[1] = JStr("EVENT")

\* A NOTICE or EOSE candidate.
IsNoticeOrEose(m) ==
    LET j == JsonParse(m) IN
    j.type = "array" /\ Len(j.items) >= 2 /\ j.items[1] \in {JStr("NOTICE"), JStr("EOSE")}

\* The string event ids of the lines of a reply.
IdsOf(lines) == {event_id_of(lines[k]) : k \in 1..Len(lines)} \ {""}

\* C23: when send filters a reply, an EVENT line is left out only if its
\* third element is an object with a string id that the tracker holds by
\* then (from before or from an earlier line of the reply); an EVENT line
\* without a third element, with a third element that is no object, or with
\* no id or an id that is no string, comes back as often as the reply has it;
\* so does every NOTICE and EOSE line; and the tracker's set grows by the
\* string ids of the reply's EVENT lines and by nothing else.
C23_DedupOnlyIdentified ==
    [][\A t \in Threads :
          (pc[t] = "process" /\ pc'[t] = "ret") =>
              LET lines == messages_of(result_str[t])
                  msgs == messages_of(ret'[t].val) IN
              /\ \A m \in Range(lines) :
                    /\ (IsEventLine(m) /\ event_id_of(m) = "") =>
                           Count(msgs, m) = Count(lines, m)
                    /\ (IsEventLine(m) /\ event_id_of(m) # "") =>
                           Count(msgs, m) = IF event_id_of(m) \in event_ids THEN 0 ELSE 1
                    /\ IsNoticeOrEose(m) => Count(msgs, m) = Count(lines, m)
              /\ event_ids' = event_ids \cup IdsOf(lines)]_vars

\* C23's case: a reply that holds the same EVENT without id twice; both come
\* back and the tracker, which held an id, holds what it held.
C23_Witness ==
    \E t \in Threads :
        /\ Replied(t)
        /\ result_str[t] = <<EvNoId, NL, NL, EvNoId>>
        /\ ret[t].val = <<EvNoId, NL, EvNoId>>
        /\ IsEventLine(EvNoId) /\ event_id_of(EvNoId) = ""
        /\ event_ids = {"a"}

\* C24 as stated: every send that has come to its end has called the guest's
\* send exactly once.
C24_Original ==
    \A t \in Threads :
        (op[t] = "send" /\ pc[t] = "ret") => Len(Called(t, "send")) = 1

\* C24, amended: a host call never calls the guest's send more than once,
\* whatever the outcome (a reply, a failed call, the null pointer, nothing
\* left after filtering); a send whose input buffer was allocated calls it
\* exactly once; a send whose allocation failed raises without calling it;
\* info() and describe() never call it.
C24_OneInvocation ==
    \A t \in Threads :
        /\ Len(Called(t, "send")) <= 1
        /\ op[t] # "send" => Called(t, "send") = << >>
        /\ (op[t] = "send" /\ pc[t] \in {"free_in", "read", "free_out", "process"}) =>
               Len(Called(t, "send")) = 1
        /\ (op[t] = "send" /\ pc[t] = "ret") =>
               /\ ret[t].kind \in {"value", "error"}
               /\ Len(Called(t, "send")) = (IF ret[t].kind = "error" THEN 0 ELSE 1)
               /\ ret[t].kind = "error" <=> alloc_failed(Called(t, "alloc_string")[1].ret)

\* C24's case: the one EVENT of the reply was a duplicate, send returns the
\* empty string, and the guest's send was called once.
C24_Witness ==
    \E t \in Threads :
        /\ Replied(t)
        /\ result_str[t] = <<EvA>> /\ ret[t].val = << >>
        /\ Len(Called(t, "send")) = 1

\* C25: in every state the tracker's set is the set of the string event ids
\* of the EVENT messages returned to callers since the last REQ, or since
\* construction when there was none: an id is in the set exactly when an
\* EVENT with that id was returned in the current window.
C25_TrackerContent ==
    /\ event_ids \subseteq EventIds
    /\ \A i \in EventIds : i \in event_ids <=> returned[i] > 0

\* C25's case: the EVENT with id a was returned before the last REQ, the
\* EVENT with id b after it; the tracker holds b alone.
C25_Witness ==
    \E t \in Threads :
        /\ Replied(t) /\ IsReq(message[t])
        /\ a_before
        /\ result_str[t] = <<EvB, NL>>
        /\ returned = [i \in EventIds |-> IF i = "b" THEN 1 ELSE 0]
        /\ event_ids = {"b"}

\* C26: with guest calls that return, every call of send, info() and
\* describe() that has been started comes to its end, returning or raising,
\* whatever optional exports the module has, and once it has ended the
\* mutex is not held by its thread, so that a later call can go on.
C26_NoLostLock ==
    /\ [](\A t \in Threads : pc[t] \in {"idle", "lock"} => mutex # t)
    /\ \A t \in Threads : (pc[t] = "lock") ~> (pc[t] = "idle")

\* C27: when threads send REQs at the same time, no step of another call
\* falls between a call's reset of the tracker and the filtering of its own
\* reply: while a send is under way the tracker changes by its steps alone,
\* no other call is under way, and what a REQ returns holds every string
\* event id of its own reply exactly once and is what filtering that reply
\* against an empty tracker gives, that is what the call returns when run
\* alone.
C27_IsolatedReqs ==
    /\ [](\A t \in Threads :
            (Replied(t) /\ IsReq(message[t])) =>
                /\ \A u \in Threads \ {t} : pc[u] \in {"idle", "lock"}
                /\ \A i \in IdsOf(messages_of(result_str[t])) :
                       count_id(ret[t].val, i) = 1
                /\ \A i \in EventIds \ IdsOf(messages_of(result_str[t])) :
                       count_id(ret[t].val, i) = 0
                /\ ret[t].val = join(process_messages(result_str[t], {}).filtered))
    /\ [][\A t \in Threads :
            (op[t] = "send" /\ pc[t] \in SendPcs /\ pc'[t] = pc[t]) =>
                event_ids' = event_ids]_vars

\* C27's case: two threads are sending; one waits for the mutex while the
\* other's REQ, whose reply holds the id a twice, returns it once although
\* the id had been returned in the window before.
C27_Witness ==
    \E t \in Threads, u \in Threads :
        /\ t # u
        /\ op[u] = "send" /\ pc[u] = "lock"
        /\ Replied(t) /\ IsReq(message[t]) /\ a_before
        /\ result_str[t] = <<EvA, NL, EvA, NL, Eose>>
        /\ ret[t].val = <<EvA, NL, Eose>>

\* C28: whatever 32-bit pointer the guest supplies, negative ones and ones
\* at or beyond the size of memory included, and whatever memory holds,
\* read_string reads only offsets from 0 up to the size of memory, and
\* write_string writes only such offsets.
C28_InBounds ==
    /\ InMemory(read_at)
    /\ InMemory(written_at)

====
